---- MODULE Spec2Model ----
(***************************************************************************)
(* Room progression and LLM-reply contract of the escape-room application  *)
(* (app.py, tools/core.py, scenarios/).                                    *)
(*                                                                         *)
(* A text is a sequence of one-character strings.  The session state is    *)
(* Streamlit's st.session_state; one action is one user interaction: the   *)
(* widget callback, the script run it triggers and the rerun that run may  *)
(* request.                                                                *)
(***************************************************************************)
EXTENDS Integers, Sequences, FiniteSets, TLC

(***************************************************************************)
(* Characters.  Texts in this model are built from letters, digits, JSON   *)
(* punctuation, space, newline and the backtick; backslash escapes,        *)
(* fractions and exponents are outside the modelled alphabet.              *)
(***************************************************************************)
Q == "\""

LowerLetters ==
    <<"a","b","c","d","e","f","g","h","i","j","k","l","m",
      "n","o","p","q","r","s","t","u","v","w","x","y","z">>

UpperLetters ==
    <<"A","B","C","D","E","F","G","H","I","J","K","L","M",
      "N","O","P","Q","R","S","T","U","V","W","X","Y","Z">>

DigitChars == <<"0","1","2","3","4","5","6","7","8","9">>

Range(f) == {f[i] : i \in DOMAIN f}

IsLetter(c) == c \in Range(LowerLetters) \cup Range(UpperLetters)

IsDigit(c) == c \in Range(DigitChars)

\* Python's str.isspace / json whitespace, on the modelled alphabet
IsWs(c) == c \in {" ", "\n", "\t", "\r"}

\* the regex class \w
IsWordChar(c) == IsLetter(c) \/ IsDigit(c) \/ c = "_"

DigitVal(c) == (CHOOSE i \in DOMAIN DigitChars : DigitChars[i] = c) - 1

\* str.lower on one character
LowerChar(c) ==
    IF c \in Range(UpperLetters)
    THEN LowerLetters[CHOOSE i \in DOMAIN UpperLetters : UpperLetters[i] = c]
    ELSE c

\* str.lower
LowerText(t) == [i \in 1..Len(t) |-> LowerChar(t[i])]

\* t[i..] starts with w
Match(t, i, w) == i + Len(w) - 1 <= Len(t) /\ SubSeq(t, i, i + Len(w) - 1) = w

\* Python's (w in t) on strings
Contains(t, w) == \E i \in 1..(Len(t) - Len(w) + 1) : Match(t, i, w)

\* index of the first c at or after i, 0 when there is none
IndexOf(t, c, i) ==
    LET hits == {j \in i..Len(t) : t[j] = c}
    IN  IF hits = {} THEN 0 ELSE CHOOSE j \in hits : \A k \in hits : j <= k

Max(a, b) == IF a >= b THEN a ELSE b

Min(a, b) == IF a <= b THEN a ELSE b

(***************************************************************************)
(* JSON values as json.loads returns them.  One record shape for every     *)
(* value: t is the Python type, and only the field of that type is used.   *)
(* Python's None is JNull; an object keeps its members in source order.    *)
(***************************************************************************)
JNull == [t |-> "null", b |-> FALSE, n |-> 0, s |-> <<>>, a |-> <<>>, o |-> <<>>]

JBool(x) == [JNull EXCEPT !.t = "bool", !.b = x]

JNum(x) == [JNull EXCEPT !.t = "num", !.n = x]

JStr(x) == [JNull EXCEPT !.t = "str", !.s = x]

JList(x) == [JNull EXCEPT !.t = "list", !.a = x]

JObj(x) == [JNull EXCEPT !.t = "obj", !.o = x]

\* isinstance(v, dict), isinstance(v, str), isinstance(v, list)
IsDict(v) == v.t = "obj"

IsStr(v) == v.t = "str"

IsList(v) == v.t = "list"

\* bool(v)
Truthy(v) ==
    CASE v.t = "null" -> FALSE
      [] v.t = "bool" -> v.b
      [] v.t = "num"  -> v.n # 0
      [] v.t = "str"  -> v.s # <<>>
      [] v.t = "list" -> v.a # <<>>
      [] v.t = "obj"  -> v.o # <<>>

\* key in d  (d a dict)
HasKey(d, key) == \E i \in DOMAIN d.o : d.o[i].k = key

\* d.get(key, default): a repeated key keeps its last value, as json.loads does
DictGet(d, key, default) ==
    LET hits == {i \in DOMAIN d.o : d.o[i].k = key}
    IN  IF hits = {} THEN default
        ELSE d.o[CHOOSE i \in hits : \A j \in hits : j <= i].v

(***************************************************************************)
(* json.loads, as a recursive-descent parser over a text.  A parse result  *)
(* is [ok, v, i]: success, the value, and the index after it.              *)
(***************************************************************************)
TrueLit ==
    <<"t","r","u","e">>
FalseLit ==
    <<"f","a","l","s","e">>
NullLit ==
    <<"n","u","l","l">>

Fail == [ok |-> FALSE, v |-> JNull, i |-> 0]

Ok(v, i) == [ok |-> TRUE, v |-> v, i |-> i]

RECURSIVE SkipWs(_, _)
SkipWs(t, i) == IF i <= Len(t) /\ IsWs(t[i]) THEN SkipWs(t, i + 1) ELSE i

\* index of the quote closing a string whose content starts at i; 0 when the
\* string is unterminated or holds a control character
RECURSIVE StringEnd(_, _)
StringEnd(t, i) ==
    IF i > Len(t) THEN 0
    ELSE IF t[i] = Q THEN i
    ELSE IF t[i] \in {"\n", "\t", "\r"} THEN 0
    ELSE StringEnd(t, i + 1)

StringUpTo(t, i, e) ==
    IF e = 0 THEN Fail ELSE Ok(JStr(SubSeq(t, i + 1, e - 1)), e + 1)

\* t[i] is the opening quote
ParseString(t, i) == StringUpTo(t, i, StringEnd(t, i + 1))

RECURSIVE DigitsEnd(_, _)
DigitsEnd(t, i) == IF i <= Len(t) /\ IsDigit(t[i]) THEN DigitsEnd(t, i + 1) ELSE i

\* value of the digits t[i..j]
RECURSIVE DigitsValue(_, _, _)
DigitsValue(t, i, j) ==
    IF j < i THEN 0 ELSE 10 * DigitsValue(t, i, j - 1) + DigitVal(t[j])

\* -?(0|[1-9][0-9]*), from the sign, the first digit, the end
Signed(negative, mag) == IF negative THEN 0 - mag ELSE mag

NumberUpTo(t, i, d, e) == Ok(JNum(Signed(t[i] = "-", DigitsValue(t, d, e - 1))), e)

NumberFrom(t, i, d) ==
    IF d > Len(t) \/ ~IsDigit(t[d]) THEN Fail
    ELSE NumberUpTo(t, i, d, IF t[d] = "0" THEN d + 1 ELSE DigitsEnd(t, d))

ParseNumber(t, i) == NumberFrom(t, i, IF t[i] = "-" THEN i + 1 ELSE i)

RECURSIVE ParseValue(_, _)
RECURSIVE ParseMembers(_, _, _)
RECURSIVE ParseElements(_, _, _)

\* j is after the opening brace and the whitespace that follows it
ObjectFrom(t, j) ==
    IF j <= Len(t) /\ t[j] = "}" THEN Ok(JObj(<<>>), j + 1) ELSE ParseMembers(t, j, <<>>)

ListFrom(t, j) ==
    IF j <= Len(t) /\ t[j] = "]" THEN Ok(JList(<<>>), j + 1) ELSE ParseElements(t, j, <<>>)

\* i is at the first character of the value
ParseValue(t, i) ==
    IF i > Len(t) THEN Fail
    ELSE IF t[i] = "{" THEN ObjectFrom(t, SkipWs(t, i + 1))
    ELSE IF t[i] = "[" THEN ListFrom(t, SkipWs(t, i + 1))
    ELSE IF t[i] = Q THEN ParseString(t, i)
    ELSE IF Match(t, i, TrueLit) THEN Ok(JBool(TRUE), i + 4)
    ELSE IF Match(t, i, FalseLit) THEN Ok(JBool(FALSE), i + 5)
    ELSE IF Match(t, i, NullLit) THEN Ok(JNull, i + 4)
    ELSE IF t[i] = "-" \/ IsDigit(t[i]) THEN ParseNumber(t, i)
    ELSE Fail

\* n is after a member and the whitespace that follows it
MembersNext(t, n, acc) ==
    IF n > Len(t) THEN Fail
    ELSE IF t[n] = "}" THEN Ok(JObj(acc), n + 1)
    ELSE IF t[n] = "," THEN ParseMembers(t, SkipWs(t, n + 1), acc)
    ELSE Fail

MemberValue(t, key, val, acc) ==
    IF ~val.ok THEN Fail
    ELSE MembersNext(t, SkipWs(t, val.i), Append(acc, [k |-> key.v.s, v |-> val.v]))

\* c is after the key and the whitespace that follows it
MemberColon(t, key, c, acc) ==
    IF c > Len(t) \/ t[c] # ":" THEN Fail
    ELSE MemberValue(t, key, ParseValue(t, SkipWs(t, c + 1)), acc)

MemberKey(t, key, acc) ==
    IF ~key.ok THEN Fail ELSE MemberColon(t, key, SkipWs(t, key.i), acc)

\* i is where a member's key must start; acc holds the members read so far
ParseMembers(t, i, acc) ==
    IF i > Len(t) \/ t[i] # Q THEN Fail ELSE MemberKey(t, ParseString(t, i), acc)

\* n is after an element and the whitespace that follows it
ElementsNext(t, n, acc) ==
    IF n > Len(t) THEN Fail
    ELSE IF t[n] = "]" THEN Ok(JList(acc), n + 1)
    ELSE IF t[n] = "," THEN ParseElements(t, SkipWs(t, n + 1), acc)
    ELSE Fail

ElementValue(t, val, acc) ==
    IF ~val.ok THEN Fail ELSE ElementsNext(t, SkipWs(t, val.i), Append(acc, val.v))

\* i is where an element must start; acc holds the elements read so far
ParseElements(t, i, acc) == ElementValue(t, ParseValue(t, i), acc)

\* nothing but whitespace may follow the value
WholeText(t, r) == IF r.ok /\ SkipWs(t, r.i) = Len(t) + 1 THEN r ELSE Fail

\* json.loads(t): ok is FALSE where json.loads raises
json_loads(t) == WholeText(t, ParseValue(t, SkipWs(t, 1)))

(***************************************************************************)
(* Response Extractor.                                                     *)
(***************************************************************************)
\* str.strip
RECURSIVE StripLeft(_)
StripLeft(t) == IF t # <<>> /\ IsWs(Head(t)) THEN StripLeft(Tail(t)) ELSE t

RECURSIVE StripRight(_)
StripRight(t) ==
    IF t # <<>> /\ IsWs(t[Len(t)]) THEN StripRight(SubSeq(t, 1, Len(t) - 1)) ELSE t

Strip(t) == StripRight(StripLeft(t))

RECURSIVE LettersEnd(_, _)
LettersEnd(t, i) == IF i <= Len(t) /\ IsLetter(t[i]) THEN LettersEnd(t, i + 1) ELSE i

\* the backtick character (a string literal cannot hold it)
BackTick == "BACKTICK"

Fence == <<BackTick, BackTick, BackTick>>

\* re.sub(r"^FENCE[a-zA-Z]*\n", "", t), FENCE being three backticks
StripOpeningFence(t) ==
    IF ~Match(t, 1, Fence) THEN t
    ELSE LET e == LettersEnd(t, 4)
         IN  IF e <= Len(t) /\ t[e] = "\n" THEN SubSeq(t, e + 1, Len(t)) ELSE t

\* re.sub(r"\nFENCE\s*$", "", t): the leftmost newline-fence followed by
\* whitespace only up to the end
StripClosingFence(t) ==
    LET hits == {p \in 1..Len(t) :
                    /\ Match(t, p, <<"\n">> \o Fence)
                    /\ \A j \in (p + 4)..Len(t) : IsWs(t[j])}
    IN  IF hits = {} THEN t
        ELSE SubSeq(t, 1, (CHOOSE p \in hits : \A r \in hits : p <= r) - 1)

\* re.findall(r"\{[\s\S]*?\}", t) from index i on: from each opening brace to
\* the first closing brace after it, without overlap
RECURSIVE BraceCandidates(_, _)
BraceCandidates(t, i) ==
    LET a == IndexOf(t, "{", i)
        b == IF a = 0 THEN 0 ELSE IndexOf(t, "}", a + 1)
    IN  IF a = 0 \/ b = 0 THEN <<>>
        ELSE <<SubSeq(t, a, b)>> \o BraceCandidates(t, b + 1)

\* return json.loads(..) inside try, and what follows the except
ValueOr(r, otherwise) == IF r.ok THEN r.v ELSE otherwise

\* the value of the first text json.loads accepts, None when there is none
RECURSIVE FirstParsing(_)
FirstParsing(cands) ==
    IF cands = <<>> THEN JNull
    ELSE ValueOr(json_loads(Head(cands)), FirstParsing(Tail(cands)))

\* the second attempt: a text that starts with a fence once stripped, with
\* the fences removed
FencedAttempt(fenced) ==
    IF Match(fenced, 1, Fence)
    THEN <<StripClosingFence(StripOpeningFence(fenced))>>
    ELSE <<>>

\* the attempts in order: the text, the text without its fences, the brace
\* candidates; None when json.loads accepts none of them
extract_first_json_object(text) ==
    FirstParsing(<<text>> \o FencedAttempt(Strip(text)) \o BraceCandidates(text, 1))

(***************************************************************************)
(* Field Matcher.                                                          *)
(***************************************************************************)
WordAt(t, p) == p >= 1 /\ p <= Len(t) /\ IsWordChar(t[p])

\* the regex \b between t[p-1] and t[p]
Boundary(t, p) == WordAt(t, p - 1) # WordAt(t, p)

\* variant of SearchWholeWord without the word boundaries
SearchAnywhere(t, n) ==
    Contains(t, n)

\* re.compile(r"\b" + re.escape(n) + r"\b").search(t)
SearchWholeWord(t, n) ==
    \E p \in 1..(Len(t) - Len(n) + 1) :
        Match(t, p, n) /\ Boundary(t, p) /\ Boundary(t, p + Len(n))

\* variant of extract_known_fields_from_text that leaves the name as it is
extract_known_fields_name_case(text, known_fields) ==
    LET hit(name) == SearchWholeWord(LowerText(text), name)
    IN  SelectSeq(known_fields, hit)

extract_known_fields_from_text(text, known_fields) ==
    LET hit(name) == SearchWholeWord(LowerText(text), LowerText(name))
    IN  SelectSeq(known_fields, hit)

(***************************************************************************)
(* Keys and literals of the structured reply.                              *)
(***************************************************************************)
K_message ==
    <<"m","e","s","s","a","g","e">>
K_unlocked ==
    <<"u","n","l","o","c","k","e","d">>
K_status ==
    <<"s","t","a","t","u","s">>
K_confirmed_fields ==
    <<"c","o","n","f","i","r","m","e","d","_","f","i","e","l","d","s">>
K_points_awarded ==
    <<"p","o","i","n","t","s","_","a","w","a","r","d","e","d">>
S_confirmed ==
    <<"c","o","n","f","i","r","m","e","d">>
S_not_used ==
    <<"_","_","n","o","t","_","u","s","e","d","_","_">>

(***************************************************************************)
(* The texts of the bounded inputs: what the learner types and what the    *)
(* model answers.                                                          *)
(***************************************************************************)
R_plain ==
    <<"H","m",".">>

R_unlock ==
    <<"{","\"","m","e","s","s","a","g","e","\"",":","\"","G","o","\"",",","\"","u","n","l","o",
      "c","k","e","d","\"",":","t","r","u","e","}">>

R_confirm_ten ==
    <<"{","\"","s","t","a","t","u","s","\"",":","\"","C","o","n","f","i","r","m","e","d","\"",
      ",","\"","c","o","n","f","i","r","m","e","d","_","f","i","e","l","d","s","\"",":","[",
      "\"","i","d","\"",",","\"","d","a","t","e","\"",",","\"","s","q","f","t","\"",",",
      "\"","b","e","d","\"",",","\"","b","a","t","h","\"",",","\"","a","g","e","\"",",",
      "\"","l","o","t","\"",",","\"","z","i","p","\"",",","\"","y","r","\"",",","\"","v",
      "i","e","w","\"","]","}">>

R_confirm_two ==
    <<"{","\"","m","e","s","s","a","g","e","\"",":","\"","C","o","n","f","i","r","m","e","d",
      ".","\"",",","\"","s","t","a","t","u","s","\"",":","\"","c","o","n","f","i","r","m",
      "e","d","\"",",","\"","c","o","n","f","i","r","m","e","d","_","f","i","e","l","d","s",
      "\"",":","[","\"","s","q","f","t","\"",",","\"","b","e","d","\"","]","}">>

R_points_5 ==
    <<"{","\"","p","o","i","n","t","s","_","a","w","a","r","d","e","d","\"",":","5","}">>

R_points_10 ==
    <<"{","\"","m","e","s","s","a","g","e","\"",":","\"","o","k","\"",",","\"","p","o","i","n",
      "t","s","_","a","w","a","r","d","e","d","\"",":","1","0","}">>

R_points_30 ==
    <<"{","\"","p","o","i","n","t","s","_","a","w","a","r","d","e","d","\"",":","3","0","}">>

R_points_neg ==
    <<"{","\"","p","o","i","n","t","s","_","a","w","a","r","d","e","d","\"",":","-","5","}">>

U_hello ==
    <<"h","i">>


\* replies whose "unlocked" is absent, false or merely truthy
E_false ==
    <<"{","\"","u","n","l","o","c","k","e","d","\"",":","f","a","l","s","e","}">>

E_one ==
    <<"{","\"","u","n","l","o","c","k","e","d","\"",":","1","}">>

E_string ==
    <<"{","\"","u","n","l","o","c","k","e","d","\"",":","\"","t","r","u","e","\"","}">>

E_list ==
    <<"{","\"","u","n","l","o","c","k","e","d","\"",":","[","t","r","u","e","]","}">>

E_absent ==
    <<"{","\"","m","e","s","s","a","g","e","\"",":","\"","G","o","\"","}">>

\* a reply whose message is itself the text of an object
E_nested ==
    <<"{","\"","m","e","s","s","a","g","e","\"",":","\"","{","}","\"","}">>

\* the briefing reply that opens room 2 with a greeting
R_welcome ==
    <<"{","\"","m","e","s","s","a","g","e","\"",":","\"","W","e","l","c","o","m","e"," ","a",
      "b","o","a","r","d","!","\"",",","\"","u","n","l","o","c","k","e","d","\"",":","t",
      "r","u","e","}">>

\* briefing replies: an empty message, a message that is no string, and an
\* object after some words
B_empty_message ==
    <<"{","\"","m","e","s","s","a","g","e","\"",":","\"","\"",",","\"","u","n","l","o","c","k",
      "e","d","\"",":","f","a","l","s","e","}">>

B_number_message ==
    <<"{","\"","m","e","s","s","a","g","e","\"",":","5","}">>

B_prefixed ==
    <<"S","u","r","e",":"," ","{","\"","m","e","s","s","a","g","e","\"",":","\"","H","i","\"",
      "}">>

\* replies with an object inside prose: one that holds an object, one with a
\* closing brace in a string, and one after braces that hold no JSON
X_nested ==
    <<"S","u","r","e",":"," ","{","\"","m","e","s","s","a","g","e","\"",":","\"","G","o","\"",
      ",","\"","m","e","t","a","\"",":","{","\"","k","\"",":","1","}","}"," ","o","k">>

X_brace_in_string ==
    <<"N","o","t","e"," ","{","\"","m","e","s","s","a","g","e","\"",":","\"","a","}","b","\"",
      "}"," ","e","n","d">>

X_second_parses ==
    <<"{","o","o","p","s","}"," ","t","h","e","n"," ","{","\"","m","e","s","s","a","g","e","\"",
      ":","\"","H","i","\"","}">>

\* replies that are JSON but no object
J_list ==
    <<"[","\"","s","q","f","t","\"",",","\"","b","e","d","\"","]">>

J_string ==
    <<"\"","s","q","f","t","\"">>

J_number ==
    <<"5">>

J_true ==
    <<"t","r","u","e">>

J_null ==
    <<"n","u","l","l">>

\* what chat_with_persona returns without a reply of the model (app.py 148, 175, 183);
\* the exception of LLM_error said "boom"
LLM_unavailable ==
    <<"[","L","L","M"," ","u","n","a","v","a","i","l","a","b","l","e",":"," ","m","i","s","s",
      "i","n","g"," ","A","P","I"," ","k","e","y","]">>

LLM_timeout ==
    <<"[","L","L","M"," ","t","i","m","e","o","u","t",":"," ","p","l","e","a","s","e"," ","t",
      "r","y"," ","a","g","a","i","n"," ","o","r"," ","s","i","m","p","l","i","f","y"," ",
      "y","o","u","r"," ","m","e","s","s","a","g","e","]">>

LLM_error ==
    <<"[","L","L","M"," ","e","r","r","o","r",":"," ","b","o","o","m","]">>

\* discovery replies: a list with a number and an empty string beside its names
\* and a message naming another field; no list; an empty list; a list without
\* names
D_list_and_text ==
    <<"{","\"","m","e","s","s","a","g","e","\"",":","\"","C","o","n","f","i","r","m","e","d",
      " ","s","q","f","t",","," ","l","o","t"," ","t","o","o",".","\"",",","\"","s","t","a",
      "t","u","s","\"",":","\"","C","O","N","F","I","R","M","E","D","\"",",","\"","c","o",
      "n","f","i","r","m","e","d","_","f","i","e","l","d","s","\"",":","[","\"","s","q","f",
      "t","\"",",","3",",","\"","\"",",","\"","b","e","d","\"","]","}">>

D_text_only ==
    <<"{","\"","m","e","s","s","a","g","e","\"",":","\"","T","h","e"," ","S","q","f","t"," ",
      "a","n","d"," ","l","o","t"," ","e","x","i","s","t",","," ","b","e","d","r","o","o",
      "m","s"," ","n","o",".","\"",",","\"","s","t","a","t","u","s","\"",":","\"","c","o",
      "n","f","i","r","m","e","d","\"","}">>

D_empty_list ==
    <<"{","\"","m","e","s","s","a","g","e","\"",":","\"","a","g","e","\"",",","\"","s","t","a",
      "t","u","s","\"",":","\"","c","o","n","f","i","r","m","e","d","\"",",","\"","c","o",
      "n","f","i","r","m","e","d","_","f","i","e","l","d","s","\"",":","[","]","}">>

D_no_strings ==
    <<"{","\"","m","e","s","s","a","g","e","\"",":","\"","z","i","p"," ","o","k","\"",",","\"",
      "s","t","a","t","u","s","\"",":","\"","c","o","n","f","i","r","m","e","d","\"",",",
      "\"","c","o","n","f","i","r","m","e","d","_","f","i","e","l","d","s","\"",":","[","3",
      ",","\"","\"","]","}">>

\* replies whose message names fields in capitals, out of catalogue order,
\* inside a longer word and joined by an underscore; their messages, two
\* catalogue names in capitals and the other words of the messages
D_average ==
    <<"{","\"","m","e","s","s","a","g","e","\"",":","\"","P","r","i","c","e"," ","a","n","d",
      " ","B","E","D",";"," ","a","v","e","r","a","g","e","\"","}">>

D_underscore ==
    <<"{","\"","m","e","s","s","a","g","e","\"",":","\"","a","g","e",","," ","s","q","f","t",
      "_","l","o","t","\"","}">>

M_average ==
    <<"P","r","i","c","e"," ","a","n","d"," ","B","E","D",";"," ","a","v","e","r","a","g","e">>

M_underscore ==
    <<"a","g","e",","," ","s","q","f","t","_","l","o","t">>

N_Bed ==
    <<"B","e","d">>

N_SQFT ==
    <<"S","Q","F","T">>

W_and ==
    <<"a","n","d">>

W_average ==
    <<"a","v","e","r","a","g","e">>

W_sqft_lot ==
    <<"s","q","f","t","_","l","o","t">>

\* replies without an object: JSON that lacks its closing brace, and prose
\* that names fields, points and the unlock key
U_malformed ==
    <<"{","\"","u","n","l","o","c","k","e","d","\"",":"," ","t","r","u","e",","," ","\"","p",
      "o","i","n","t","s","_","a","w","a","r","d","e","d","\"",":"," ","3","0">>

U_prose ==
    <<"c","o","n","f","i","r","m","e","d"," ","s","q","f","t"," ","a","n","d"," ","b","e","d",
      ";"," ","p","o","i","n","t","s","_","a","w","a","r","d","e","d"," ","3","0",";"," ",
      "u","n","l","o","c","k","e","d"," ","t","r","u","e">>

\* a briefing reply with a message that leaves room 2 locked, and its message
R_hint ==
    <<"{","\"","m","e","s","s","a","g","e","\"",":","\"","G","o"," ","o","n","\"",",","\"","u",
      "n","l","o","c","k","e","d","\"",":","f","a","l","s","e","}">>

T_go_on ==
    <<"G","o"," ","o","n">>

\* a discovery reply that rejects and names a field in its message
D_rejected ==
    <<"{","\"","s","t","a","t","u","s","\"",":","\"","r","e","j","e","c","t","e","d","\"",",",
      "\"","m","e","s","s","a","g","e","\"",":","\"","N","o",","," ","s","q","f","t"," ",
      "i","s"," ","n","o","t"," ","t","h","e","r","e","\"","}">>

\* a discovery reply that confirms a name no catalogue has, and that name
D_unknown ==
    <<"{","\"","s","t","a","t","u","s","\"",":","\"","c","o","n","f","i","r","m","e","d","\"",
      ",","\"","c","o","n","f","i","r","m","e","d","_","f","i","e","l","d","s","\"",":","[",
      "\"","g","a","r","a","g","e","\"","]","}">>

N_garage ==
    <<"g","a","r","a","g","e">>

\* prose that holds the phrase rooms 2 and 4 pass as unlock_phrase
U_not_used ==
    <<"F","i","e","l","d"," ","_","_","n","o","t","_","u","s","e","d","_","_"," ","h","e","r",
      "e">>

AllReplyTexts ==
    {R_plain, R_unlock, R_confirm_ten, R_confirm_two,
     R_points_5, R_points_10, R_points_30, R_points_neg,
     E_false, E_one, E_string, E_list, E_absent,
     D_list_and_text, D_text_only, D_empty_list, D_no_strings,
     LLM_unavailable, LLM_timeout, LLM_error, E_nested, R_welcome,
     B_empty_message, B_number_message, B_prefixed,
     X_nested, X_brace_in_string, X_second_parses,
     J_list, J_string, J_number, J_true, J_null, D_average, D_underscore,
     U_malformed, U_prose, R_hint, <<>>, D_rejected,
     D_unknown, U_not_used}

\* extract_first_json_object, computed once for each reply text
ExtractTable == [t \in AllReplyTexts |-> extract_first_json_object(t)]

Extract(text) ==
    IF text \in DOMAIN ExtractTable THEN ExtractTable[text]
    ELSE extract_first_json_object(text)

\* variant of MessageOr that takes an empty message too
MessageOr_any_string(msg, reply) == IF IsStr(msg) THEN msg.s ELSE reply

\* msg is data.get("message")
MessageOr(msg, reply) == IF IsStr(msg) /\ msg.s # <<>> THEN msg.s ELSE reply

DisplayOf(data, reply) ==
    IF IsDict(data) THEN MessageOr(DictGet(data, K_message, JNull), reply) ELSE reply

json_message_display_transform(reply) == DisplayOf(Extract(reply), reply)

(***************************************************************************)
(* Session data.  field_metadata is read once per session from the         *)
(* scenario's fields.csv; its keys, in file order, are the known-field     *)
(* vocabulary.  The catalogue itself is scenario data: fields_csv is one   *)
(* of eleven names.                                                        *)
(***************************************************************************)
F_id ==
    <<"i","d">>

F_date ==
    <<"d","a","t","e">>

F_sqft ==
    <<"s","q","f","t">>

F_bed ==
    <<"b","e","d">>

F_bath ==
    <<"b","a","t","h">>

F_age ==
    <<"a","g","e">>

F_lot ==
    <<"l","o","t">>

F_zip ==
    <<"z","i","p">>

F_yr ==
    <<"y","r">>

F_view ==
    <<"v","i","e","w">>

F_price ==
    <<"p","r","i","c","e">>

fields_csv ==
    <<F_id, F_date, F_sqft, F_bed, F_bath, F_age, F_lot, F_zip, F_yr, F_view, F_price>>

S_unlock_phrase ==
    <<"[","U","N","L","O","C","K","]">>

\* room 2 opens room 3 at this many discovered fields
DiscoveryThreshold == 10

\* room 4 opens room 5 at this many points
PointsThreshold == 30

ChatKeys == {"briefing", "discovery", "eda", "engineering"}

NoText == <<>>

UserTurn(text) ==
    [role |-> "user", content |-> text, has_original |-> FALSE, original |-> NoText]

AssistantTurn(display, reply) ==
    [role |-> "assistant", content |-> display, has_original |-> TRUE, original |-> reply]

\* m.get("original", m.get("content", ""))
OriginalOrContent(m) == IF m.has_original THEN m.original ELSE m.content

VARIABLES
    room_index,                   \* st.session_state.room_index
    max_room_unlocked,            \* st.session_state.max_room_unlocked
    messages,                     \* st.session_state["messages_<key>"], by key
    discovered_fields_info,       \* keys of st.session_state.discovered_fields_info
    feature_points,               \* st.session_state.feature_points
    engineering_processed_count,  \* st.session_state.engineering_processed_count
    chat_open,                    \* the last run put a chat input on the page
    outcome,                      \* what the last run answered to a submission
    last_event,                   \* the interaction that led to this state
    written                       \* the value a step assigned to room_index from outside, else 0

\* the threads of chat_with_persona; a send is one call of it
VARIABLES
    caller,                       \* the script thread: "idle", "get_model", "waiting", "returned"
    user_content,                 \* the message of the running send
    sends,                        \* messages submitted so far; the running send is number sends
    clock,                        \* seconds the caller has waited in result_q.get
    worker,                       \* by send, the thread running _worker
    result_q,                     \* by queue, the items of queue.Queue(maxsize=1)
    returned                      \* by send, what chat_with_persona gave its caller

chat_vars == <<caller, user_content, sends, clock, worker, result_q, returned>>

\* what a script run finds around it
VARIABLES
    field_metadata,               \* st.session_state.field_metadata: loaded or not, and its keys
    api_key                       \* get_api_key() finds a key

vars ==
    <<room_index, max_room_unlocked, messages, discovered_fields_info, feature_points,
      engineering_processed_count, chat_open, outcome, last_event, written, chat_vars,
      field_metadata, api_key>>

\* the session state as one value, so that a script run is a function on it
Session ==
    [room_index |-> room_index,
     max_room_unlocked |-> max_room_unlocked,
     messages |-> messages,
     discovered_fields_info |-> discovered_fields_info,
     feature_points |-> feature_points,
     engineering_processed_count |-> engineering_processed_count,
     chat_open |-> chat_open,
     outcome |-> outcome,
     field_metadata |-> field_metadata,
     raised |-> FALSE]

\* what one script run receives from the page: the chat text submitted (NoText
\* for none) with the reply chat_with_persona will return for it, the button
\* whose st.button call returns True, and the columns selected in room 5
NoEvent == [user_input |-> NoText, reply |-> NoText, button |-> "none", selected |-> {}]

(***************************************************************************)
(* Conversation Store and Unlock Evaluator (ui_chat_area).                 *)
(***************************************************************************)
\* the normalisation of stored assistant messages that carry no "original"
\* variant of normalize_messages that does not test for "original"
normalize_messages_again(msgs) ==
    [i \in 1..Len(msgs) |->
        IF /\ msgs[i].role = "assistant"
           /\ IsDict(Extract(msgs[i].content))
        THEN [msgs[i] EXCEPT !.original = msgs[i].content,
                             !.has_original = TRUE,
                             !.content = json_message_display_transform(msgs[i].content)]
        ELSE msgs[i]]

normalize_messages(msgs) ==
    [i \in 1..Len(msgs) |->
        IF /\ msgs[i].role = "assistant"
           /\ ~msgs[i].has_original
           /\ IsDict(Extract(msgs[i].content))
        THEN [msgs[i] EXCEPT !.original = msgs[i].content,
                             !.has_original = TRUE,
                             !.content = json_message_display_transform(msgs[i].content)]
        ELSE msgs[i]]

\* variant of history_unlocked that accepts any truthy value of the field
history_unlocked_truthy(msgs, unlock_field, unlock_phrase) ==
    IF unlock_field # NoText
    THEN \E i \in 1..Len(msgs) :
            /\ msgs[i].role = "assistant"
            /\ LET data == Extract(OriginalOrContent(msgs[i]))
               IN  IsDict(data) /\ Truthy(DictGet(data, unlock_field, JNull))
    ELSE \E i \in 1..Len(msgs) :
            msgs[i].role = "assistant" /\ Contains(msgs[i].content, unlock_phrase)

\* variant of history_unlocked that looks for the key in the text of the reply
history_unlocked_key_in_text(msgs, unlock_field, unlock_phrase) ==
    IF unlock_field # NoText
    THEN \E i \in 1..Len(msgs) :
            /\ msgs[i].role = "assistant"
            /\ Contains(OriginalOrContent(msgs[i]), unlock_field)
    ELSE \E i \in 1..Len(msgs) :
            msgs[i].role = "assistant" /\ Contains(msgs[i].content, unlock_phrase)

\* isinstance(data, dict) and data.get(unlock_field) is True
FlagIsTrue(data, unlock_field) ==
    IsDict(data) /\ DictGet(data, unlock_field, JNull) = JBool(TRUE)

\* variant of history_unlocked that looks at the last turn only
history_unlocked_last_turn(msgs, unlock_field, unlock_phrase) ==
    /\ msgs # <<>>
    /\ msgs[Len(msgs)].role = "assistant"
    /\ IF unlock_field # NoText
       THEN FlagIsTrue(Extract(OriginalOrContent(msgs[Len(msgs)])), unlock_field)
       ELSE Contains(msgs[Len(msgs)].content, unlock_phrase)

\* unlock_field = NoText stands for None (and for "", equally falsy)
history_unlocked(msgs, unlock_field, unlock_phrase) ==
    IF unlock_field # NoText
    THEN \E i \in 1..Len(msgs) :
            /\ msgs[i].role = "assistant"
            /\ FlagIsTrue(Extract(OriginalOrContent(msgs[i])), unlock_field)
    ELSE \E i \in 1..Len(msgs) :
            msgs[i].role = "assistant" /\ Contains(msgs[i].content, unlock_phrase)

\* the names a confirmed_fields list contributes: its non-empty strings
ConfirmedNames(data) ==
    LET status == DictGet(data, K_status, JStr(NoText))
        fields == DictGet(data, K_confirmed_fields, JNull)
    IN  \* str(status).lower() == "confirmed": str() of a value that is not a
        \* string is never that word
        IF IsStr(status) /\ LowerText(status.s) = S_confirmed /\ IsList(fields)
        THEN {fields.a[i].s : i \in {j \in DOMAIN fields.a :
                                        IsStr(fields.a[j]) /\ fields.a[j].s # NoText}}
        ELSE {}

\* the names found in the message text when the list added nothing
FallbackNames(data, known) ==
    LET msg == DictGet(data, K_message, JNull)
    IN  IF IsStr(msg) /\ msg.s # NoText
        THEN Range(extract_known_fields_from_text(msg.s, known))
        ELSE {}

\* variant of on_ds_message that keeps only the names of the last reply
on_ds_message_replaces(s, reply) ==
    LET found == Extract(reply)
        data  == IF Truthy(found) THEN found ELSE JObj(<<>>)
    IN  IF ~IsDict(data) THEN s
        ELSE IF ConfirmedNames(data) # {}
             THEN [s EXCEPT !.discovered_fields_info = ConfirmedNames(data)]
        ELSE [s EXCEPT !.discovered_fields_info =
                           @ \cup FallbackNames(data, s.field_metadata.keys)]

\* extract_first_json_object(reply) or {}
OrEmptyDict(found) == IF Truthy(found) THEN found ELSE JObj(<<>>)

\* variant of NamesToAdd that scans the message text in every case
NamesToAdd_with_text(data, confirmed, known) ==
    confirmed \cup FallbackNames(data, known)

\* the fallback runs when the list added no name
NamesToAdd(data, confirmed, known) ==
    IF confirmed # {} THEN confirmed ELSE FallbackNames(data, known)

\* variant of AddNames in which the AttributeError of data.get ends the run
AddNames_propagates(s, data) ==
    IF ~IsDict(data) THEN [s EXCEPT !.raised = TRUE]
    ELSE [s EXCEPT !.discovered_fields_info =
                      @ \cup NamesToAdd(data, ConfirmedNames(data), s.field_metadata.keys)]

AddNames(s, data) ==
    IF ~IsDict(data) THEN s
    ELSE [s EXCEPT !.discovered_fields_info =
                      @ \cup NamesToAdd(data, ConfirmedNames(data), s.field_metadata.keys)]

\* the hook of room 2.  data.get on a value that is no dict raises, and
\* ui_chat_area swallows it: nothing changes
on_ds_message(s, reply) == AddNames(s, OrEmptyDict(Extract(reply)))

\* the end of ui_chat_area: the hook when a reply was stored, then the unlock
\* check on the log as it now is
chat_end(s, key_prefix, unlock_phrase, hook, unlock_field, reply, replied) ==
    [s        |-> IF replied /\ hook = "on_ds_message" THEN on_ds_message(s, reply) ELSE s,
     unlocked |-> history_unlocked(s.messages[key_prefix], unlock_field, unlock_phrase)]

\* the chat loop; user_input is what st.chat_input returned, NoText when the
\* input is disabled
chat_turn(s, key_prefix, unlock_phrase, hook, unlock_field, ev, user_input) ==
    IF user_input = NoText
    THEN chat_end(s, key_prefix, unlock_phrase, hook, unlock_field, ev.reply, FALSE)
    ELSE chat_end([s EXCEPT !.messages[key_prefix] =
                        @ \o <<UserTurn(user_input),
                               AssistantTurn(json_message_display_transform(ev.reply),
                                             ev.reply)>>],
                  key_prefix, unlock_phrase, hook, unlock_field, ev.reply, TRUE)

\* variant of chat_input that shows the input in every run
chat_input_always_shown(s, key_prefix, unlock_phrase, hook, unlock_field, ev, input_disabled) ==
    chat_turn([s EXCEPT !.chat_open = TRUE],
              key_prefix, unlock_phrase, hook, unlock_field, ev, ev.user_input)

\* from the pre-check on; s holds the normalised log
chat_input(s, key_prefix, unlock_phrase, hook, unlock_field, ev, input_disabled) ==
    chat_turn([s EXCEPT !.chat_open = ~input_disabled],
              key_prefix, unlock_phrase, hook, unlock_field, ev,
              IF input_disabled THEN NoText ELSE ev.user_input)

chat_history(s, key_prefix, unlock_phrase, hook, unlock_field, ev) ==
    chat_input(s, key_prefix, unlock_phrase, hook, unlock_field, ev,
               history_unlocked(s.messages[key_prefix], unlock_field, unlock_phrase))

\* variant of ui_chat_area whose backfill pass goes over the logs of all rooms
ui_chat_area_all_logs(s, key_prefix, unlock_phrase, hook, unlock_field, ev) ==
    chat_history([s EXCEPT !.messages = [key \in DOMAIN s.messages |->
                                            normalize_messages(s.messages[key])]],
                 key_prefix, unlock_phrase, hook, unlock_field, ev)

\* every room passes assistant_display_transform = json_message_display_transform
\* and disable_on_unlock = True, and leaves disable_input at None.
\* hook: "on_ds_message" or "none".  Returns the session and the unlocked flag.
ui_chat_area(s, key_prefix, unlock_phrase, hook, unlock_field, ev) ==
    chat_history([s EXCEPT !.messages[key_prefix] = normalize_messages(@)],
                 key_prefix, unlock_phrase, hook, unlock_field, ev)

(***************************************************************************)
(* Room Progression Controller (render_scenario).  A room handler returns  *)
(* the session and whether it ended in do_rerun().                         *)
(***************************************************************************)
\* the "Return to Room k-1" button, the last state change of a handler
\* variant of ReturnButton that takes the frontier back as well
ReturnButton_lowers_frontier(s, ev, target) ==
    IF ev.button = "prev"
    THEN [s |-> [s EXCEPT !.room_index = target, !.max_room_unlocked = target],
          rerun |-> TRUE]
    ELSE [s |-> s, rerun |-> FALSE]

ReturnButton(s, ev, target) ==
    IF ev.button = "prev"
    THEN [s |-> [s EXCEPT !.room_index = target], rerun |-> TRUE]
    ELSE [s |-> s, rerun |-> FALSE]

render_room_0(s, ev) ==
    IF ev.button = "go"
    THEN [s |-> [s EXCEPT !.room_index = 1,
                          !.max_room_unlocked = Max(s.max_room_unlocked, 1)],
          rerun |-> TRUE]
    ELSE [s |-> s, rerun |-> FALSE]

\* variant of render_room_1 that assigns 2 in place of the maximum
render_room_1_assigns(s, ev) ==
    LET chat == ui_chat_area(s, "briefing", S_unlock_phrase, "none", K_unlocked, ev)
        s1   == IF chat.unlocked
                THEN [chat.s EXCEPT !.max_room_unlocked = 2]
                ELSE chat.s
    IN  ReturnButton(s1, ev, 0)

\* max_room_unlocked = max(max_room_unlocked, k) under a condition
\* variant of raise_frontier that leaves the frontier where it is
raise_frontier_never(s, condition, k) ==
    s

raise_frontier(s, condition, k) ==
    IF condition THEN [s EXCEPT !.max_room_unlocked = Max(@, k)] ELSE s

unlocked_by_chat(chat, k) == raise_frontier(chat.s, chat.unlocked, k)

render_room_1(s, ev) ==
    ReturnButton(unlocked_by_chat(ui_chat_area(s, "briefing", S_unlock_phrase, "none",
                                               K_unlocked, ev), 2),
                 ev, 0)

\* variant of render_room_2 that unlocks room 4 as well
render_room_2_skips(s, ev) ==
    LET chat == ui_chat_area(s, "discovery", S_not_used, "on_ds_message", NoText, ev)
        s1   == IF Cardinality(chat.s.discovered_fields_info) >= DiscoveryThreshold
                THEN [chat.s EXCEPT !.max_room_unlocked = Max(@, 4)]
                ELSE chat.s
    IN  ReturnButton(s1, ev, 1)

\* variant of render_room_2 that asks for more than the threshold
render_room_2_strict(s, ev) ==
    LET chat == ui_chat_area(s, "discovery", S_not_used, "on_ds_message", NoText, ev)
        s1   == IF Cardinality(chat.s.discovered_fields_info) > DiscoveryThreshold
                THEN [chat.s EXCEPT !.max_room_unlocked = Max(@, 3)]
                ELSE chat.s
    IN  ReturnButton(s1, ev, 1)

discovered_enough_fields(s) ==
    raise_frontier(s, Cardinality(s.discovered_fields_info) >= DiscoveryThreshold, 3)

render_room_2(s, ev) ==
    ReturnButton(discovered_enough_fields(ui_chat_area(s, "discovery", S_not_used,
                                                       "on_ds_message", NoText, ev).s),
                 ev, 1)

\* variant of render_room_3 that evaluates the briefing log
render_room_3_reads_briefing(s, ev) ==
    LET chat == ui_chat_area(s, "briefing", S_unlock_phrase, "none", K_unlocked, ev)
        s1   == IF chat.unlocked
                THEN [chat.s EXCEPT !.max_room_unlocked = Max(@, 4)]
                ELSE chat.s
    IN  ReturnButton(s1, ev, 2)

render_room_3(s, ev) ==
    ReturnButton(unlocked_by_chat(ui_chat_area(s, "eda", S_unlock_phrase, "none",
                                               K_unlocked, ev), 4),
                 ev, 2)

\* int() of the digits after the sign: single underscores between digits are
\* allowed
IntOfDigits(negative, digits) ==
    IF /\ digits # NoText
       /\ \A i \in DOMAIN digits :
             \/ IsDigit(digits[i])
             \/ /\ digits[i] = "_"
                /\ i > 1 /\ i < Len(digits)
                /\ IsDigit(digits[i - 1]) /\ IsDigit(digits[i + 1])
    THEN [ok |-> TRUE,
          n  |-> Signed(negative, DigitsValue(SelectSeq(digits, IsDigit), 1,
                                              Len(SelectSeq(digits, IsDigit))))]
    ELSE [ok |-> FALSE, n |-> 0]

\* int() of a stripped string
IntOfText(body) ==
    IF body # NoText /\ Head(body) \in {"-", "+"}
    THEN IntOfDigits(Head(body) = "-", Tail(body))
    ELSE IntOfDigits(FALSE, body)

\* int(v): ok is FALSE where int() raises
PyInt(v) ==
    CASE v.t = "num"  -> [ok |-> TRUE, n |-> v.n]
      [] v.t = "bool" -> [ok |-> TRUE, n |-> IF v.b THEN 1 ELSE 0]
      [] v.t = "str"  -> IntOfText(Strip(v.s))
      [] OTHER        -> [ok |-> FALSE, n |-> 0]

\* try: points_added += int(..) except Exception: pass
IntOrNothing(r) == IF r.ok THEN r.n ELSE 0

DataPoints(data) ==
    IF IsDict(data) /\ HasKey(data, K_points_awarded)
    THEN IntOrNothing(PyInt(DictGet(data, K_points_awarded, JNum(0))))
    ELSE 0

\* what one stored message adds to points_added in the scoring loop
MessagePoints(msg) ==
    IF msg.role = "assistant" THEN DataPoints(Extract(OriginalOrContent(msg))) ELSE 0

RECURSIVE SumPoints(_)
SumPoints(msgs) ==
    IF msgs = <<>> THEN 0 ELSE MessagePoints(Head(msgs)) + SumPoints(Tail(msgs))

\* variant of score_new_messages that scores the briefing log
score_new_messages_briefing(s) ==
    LET msgs      == s.messages["briefing"]
        start_idx == s.engineering_processed_count
        points_added == SumPoints(SubSeq(msgs, start_idx + 1, Len(msgs)))
    IN  IF start_idx < Len(msgs)
        THEN [s EXCEPT !.feature_points = @ + points_added,
                       !.engineering_processed_count = Len(msgs)]
        ELSE s

\* variant of score_new_messages that leaves the cursor where it was
score_new_messages_keeps_cursor(s) ==
    LET msgs      == s.messages["engineering"]
        start_idx == s.engineering_processed_count
        points_added == SumPoints(SubSeq(msgs, start_idx + 1, Len(msgs)))
    IN  IF start_idx < Len(msgs)
        THEN [s EXCEPT !.feature_points = @ + points_added]
        ELSE s

\* variant of score_new_messages that moves the cursor only when points came
score_new_messages_on_points(s) ==
    LET msgs      == s.messages["engineering"]
        start_idx == s.engineering_processed_count
        points_added == SumPoints(SubSeq(msgs, start_idx + 1, Len(msgs)))
    IN  IF start_idx < Len(msgs) /\ points_added # 0
        THEN [s EXCEPT !.feature_points = @ + points_added,
                       !.engineering_processed_count = Len(msgs)]
        ELSE s

\* the scoring pass over the messages past the cursor
\* (the session is bound once, so that the loop reads one value of it)
score_new_messages(session) ==
    LET scored(s) ==
            LET msgs      == s.messages["engineering"]
                start_idx == s.engineering_processed_count
                points_added == SumPoints(SubSeq(msgs, start_idx + 1, Len(msgs)))
            IN  IF start_idx < Len(msgs)
                THEN [s EXCEPT !.feature_points = @ + points_added,
                               !.engineering_processed_count = Len(msgs)]
                ELSE s
    IN  CHOOSE after \in {scored(s) : s \in {session}} : TRUE

reached_points(s) == raise_frontier(s, s.feature_points >= PointsThreshold, 5)

render_room_4(s, ev) ==
    ReturnButton(reached_points(score_new_messages(
                     ui_chat_area(s, "engineering", S_not_used, "none", NoText, ev).s)),
                 ev, 3)

\* the column names the submission check looks for
C_id ==
    <<"i","d">>

C_date ==
    <<"d","a","t","e">>

\* variant of submit_selection that looks for "id" only
submit_selection_id_only(s, ev) ==
    IF ev.button = "submit"
    THEN [s EXCEPT !.outcome = IF C_id \in ev.selected THEN "rejected" ELSE "escaped"]
    ELSE s

\* the "Submit" button
submit_selection(s, ev) ==
    IF ev.button = "submit"
    THEN [s EXCEPT !.outcome = IF C_id \in ev.selected \/ C_date \in ev.selected
                               THEN "rejected" ELSE "escaped"]
    ELSE s

render_room_5(s, ev) == ReturnButton(submit_selection(s, ev), ev, 4)

\* variant of clamp_room that leaves room_index as it finds it
clamp_room_absent(s) ==
    s

\* the clamp at the head of render_scenario
clamp_room(s) ==
    [s EXCEPT !.room_index = Min(s.room_index, s.max_room_unlocked)]

\* the handler of the room the clamp left
room_handler(s, ev) ==
    CASE s.room_index = 0 -> render_room_0(s, ev)
      [] s.room_index = 1 -> render_room_1(s, ev)
      [] s.room_index = 2 -> render_room_2(s, ev)
      [] s.room_index = 3 -> render_room_3(s, ev)
      [] s.room_index = 4 -> render_room_4(s, ev)
      [] s.room_index = 5 -> render_room_5(s, ev)
      [] OTHER            -> [s |-> s, rerun |-> FALSE]

\* one script run: clamp, then the handler of the clamped room
\* without field_metadata in the session the run reads fields.csv; the model
\* keeps loaded = FALSE for a file that is not there, and open() raises
render_scenario(s, ev) ==
    IF s.field_metadata.loaded
    THEN room_handler([clamp_room(s) EXCEPT !.chat_open = FALSE, !.outcome = "none"], ev)
    ELSE [s |-> [clamp_room(s) EXCEPT !.chat_open = FALSE, !.outcome = "none",
                                      !.raised = TRUE],
          rerun |-> FALSE]

RECURSIVE run_script(_, _)

\* after do_rerun() the script runs again with nothing submitted
after_run(first) ==
    IF first.rerun THEN run_script(first.s, NoEvent) ELSE first.s

\* a script run and, when it ended in do_rerun(), the run that follows
run_script(s, ev) == after_run(render_scenario(s, ev))

(***************************************************************************)
(* Inputs: what the learner types, what the model answers, what is         *)
(* selected in room 5.                                                     *)
(***************************************************************************)

UserInputs == {U_hello}

\* the replies drawn in each room: one without structure, those that bear on
\* the room's exit condition, and replies carrying the keys of other rooms
RepliesIn(room) ==
    CASE room = 1 -> {R_plain, R_unlock, R_points_30}
      [] room = 2 -> {R_plain, R_confirm_ten, R_confirm_two, R_unlock}
      [] room = 3 -> {R_plain, R_unlock, R_points_30}
      [] room = 4 -> {R_plain, R_points_5, R_points_10, R_points_30, R_points_neg, R_unlock}
      [] OTHER    -> {}

C_price ==
    <<"p","r","i","c","e">>

Selections == SUBSET {C_id, C_date, C_price}

\* messages sent in one session
MaxSends == 5

\* values a direct assignment may give room_index
MaxWritten == 6

NumSends ==
    LET n(key) == Cardinality({i \in DOMAIN messages[key] : messages[key][i].role = "user"})
    IN  n("briefing") + n("discovery") + n("eda") + n("engineering")

(***************************************************************************)
(* The state machine.                                                      *)
(***************************************************************************)
MaxChatSends == 2

SendIds == 1..MaxChatSends

\* no thread yet: started and calls count Thread.start() and the calls of the
\* model; value is what the thread put, in_time whether the caller's timeout
\* had not elapsed then, history the gem_history the thread hands to start_chat
NoWorker ==
    [state |-> "none", started |-> 0, calls |-> 0, value |-> NoText, in_time |-> FALSE,
     history |-> <<>>]

NotReturned == [kind |-> "none", text |-> NoText]

\* fields.csv was read and an API key is set
Configured ==
    /\ field_metadata = [loaded |-> TRUE, keys |-> fields_csv]
    /\ api_key = TRUE

\* no send is running and none has run
ChatIdle ==
    /\ caller = "idle"
    /\ user_content = NoText
    /\ sends = 0
    /\ clock = 0
    /\ worker = [i \in SendIds |-> NoWorker]
    /\ result_q = [i \in SendIds |-> <<>>]
    /\ returned = [i \in SendIds |-> NotReturned]

Init ==
    /\ room_index = 0
    /\ max_room_unlocked = 0
    /\ messages = [key \in ChatKeys |-> <<>>]
    /\ discovered_fields_info = {}
    /\ feature_points = 0
    /\ engineering_processed_count = 0
    /\ chat_open = FALSE
    /\ outcome = "none"
    /\ last_event = "start"
    /\ written = 0
    /\ ChatIdle
    /\ Configured

\* the session after a script run
BecomeSession(run, event) ==
    \E s \in {run} :
        /\ room_index' = s.room_index
        /\ max_room_unlocked' = s.max_room_unlocked
        /\ messages' = s.messages
        /\ discovered_fields_info' = s.discovered_fields_info
        /\ feature_points' = s.feature_points
        /\ engineering_processed_count' = s.engineering_processed_count
        /\ chat_open' = s.chat_open
        /\ outcome' = s.outcome
        /\ field_metadata' = s.field_metadata
        /\ api_key' = api_key
        /\ last_event' = IF s.raised THEN "raise" ELSE event

\* a script run in which chat_with_persona returns at once
Become(s, event) ==
    /\ BecomeSession(s, event)
    /\ UNCHANGED chat_vars

\* the script runs again with nothing submitted
Rerun ==
    /\ Become(run_script(Session, NoEvent), "rerun")
    /\ written' = 0

\* the learner submits a chat message and chat_with_persona returns r; the
\* threads behind that call, and the run in which it raises, are in SpecChat
Send(u, r) ==
    /\ chat_open
    /\ NumSends < MaxSends
    /\ Become(run_script(Session, [NoEvent EXCEPT !.user_input = u, !.reply = r]), "send")
    /\ written' = 0

\* "Go to Room 1: Briefing"
GoToRoom1 ==
    /\ room_index = 0
    /\ Become(run_script(Session, [NoEvent EXCEPT !.button = "go"]), "forward")
    /\ written' = 0

\* "Go to Room k+1" of rooms 1..4: enabled when that room is unlocked; its
\* on_click callback assigns room_index before the script runs
GoForward ==
    /\ room_index \in 1..4
    /\ ~(max_room_unlocked < room_index + 1)
    /\ Become(run_script([Session EXCEPT !.room_index = room_index + 1], NoEvent), "forward")
    /\ written' = 0

\* "Return to Room k-1" of rooms 1..5
GoBack ==
    /\ room_index \in 1..5
    /\ Become(run_script(Session, [NoEvent EXCEPT !.button = "prev"]), "back")
    /\ written' = 0

\* "Submit" of room 5
Submit(selected) ==
    /\ room_index = 5
    /\ Become(run_script(Session, [NoEvent EXCEPT !.button = "submit", !.selected = selected]),
              "submit")
    /\ written' = 0

\* room_index is assigned from outside the script, and the script runs
WriteRoom(v) ==
    /\ Become(run_script([Session EXCEPT !.room_index = v], NoEvent), "write")
    /\ written' = v

Next ==
    \/ Rerun
    \/ \E u \in UserInputs, r \in RepliesIn(room_index) : Send(u, r)
    \/ GoToRoom1
    \/ GoForward
    \/ GoBack
    \/ \E selected \in Selections : Submit(selected)

Spec == Init /\ [][Next]_vars

NextDirect ==
    \/ Next
    \/ \E v \in 0..MaxWritten : WriteRoom(v)

SpecDirect == Init /\ [][NextDirect]_vars

(***************************************************************************)
(* The Unlock Evaluator on stored logs.  A session may hold turns stored   *)
(* before replies were kept in "original"; SpecEval starts in room 1 with  *)
(* any briefing log of at most MaxEvalExchanges exchanges and renders it.  *)
(***************************************************************************)
MaxEvalExchanges == 2

EvalReplies == {R_plain, R_unlock, E_false, E_one, E_string, E_list, E_absent, E_nested}

\* an assistant turn as stored before "original" existed
LegacyTurn(reply) ==
    [role |-> "assistant", content |-> reply, has_original |-> FALSE, original |-> NoText]

EvalExchanges ==
    {<<UserTurn(u), a>> :
        u \in {U_hello, R_unlock},
        a \in {AssistantTurn(json_message_display_transform(r), r) : r \in EvalReplies}
              \cup {LegacyTurn(r) : r \in EvalReplies}}

RECURSIVE Flatten(_)
Flatten(exchanges) ==
    IF exchanges = <<>> THEN <<>> ELSE Head(exchanges) \o Flatten(Tail(exchanges))

EvalLogs ==
    {Flatten(x) : x \in UNION {[1..n -> EvalExchanges] : n \in 0..MaxEvalExchanges}}

InitEval ==
    /\ room_index = 1
    /\ max_room_unlocked = 1
    /\ messages \in {[key \in ChatKeys |-> IF key = "briefing" THEN log ELSE <<>>] :
                        log \in EvalLogs}
    /\ discovered_fields_info = {}
    /\ feature_points = 0
    /\ engineering_processed_count = 0
    /\ chat_open = FALSE
    /\ outcome = "none"
    /\ last_event = "start"
    /\ written = 0
    /\ ChatIdle
    /\ Configured

SpecEval == InitEval /\ [][Rerun]_vars

(***************************************************************************)
(* The discovery hook on its own.  SpecDiscovery starts where the learner  *)
(* has just entered room 2 and sends up to MaxDiscoverySends messages.     *)
(***************************************************************************)
MaxDiscoverySends == 3

DiscoveryReplies ==
    {R_plain, R_confirm_two, D_list_and_text, D_text_only, D_empty_list, D_no_strings,
     J_list, J_string, J_number}

InitDiscovery ==
    /\ room_index = 2
    /\ max_room_unlocked = 2
    /\ messages = [key \in ChatKeys |->
                      IF key = "briefing"
                      THEN <<UserTurn(U_hello),
                             AssistantTurn(json_message_display_transform(R_unlock), R_unlock)>>
                      ELSE <<>>]
    /\ discovered_fields_info = {}
    /\ feature_points = 0
    /\ engineering_processed_count = 0
    /\ chat_open = TRUE
    /\ outcome = "none"
    /\ last_event = "forward"
    /\ written = 0
    /\ ChatIdle
    /\ Configured

SendDiscovery(r) ==
    /\ Len(messages["discovery"]) < 2 * MaxDiscoverySends
    /\ Send(U_hello, r)

NextDiscovery ==
    \/ Rerun
    \/ \E r \in DiscoveryReplies : SendDiscovery(r)

SpecDiscovery == InitDiscovery /\ [][NextDiscovery]_vars

(***************************************************************************)
(* Persona Chat Client (chat_with_persona) as the threads it runs.  The    *)
(* script thread appends the user turn, obtains the model, starts one      *)
(* worker thread and waits on the queue of this call; the worker calls the *)
(* model and puts one item.  SpecChat starts in room 1 and runs up to      *)
(* MaxChatSends sends; a worker that the caller gave up keeps running.     *)
(***************************************************************************)
\* LLM_TIMEOUT_SECS of the model, in ticks of clock
LLM_TIMEOUT_SECS == 2

ChatReplies == {R_plain, R_unlock}

\* how the call of the model in _worker ends: with a text, or with an Exception
WorkerOutcomes ==
    {[raised |-> FALSE, text |-> r] : r \in ChatReplies}
        \cup {[raised |-> TRUE, text |-> LLM_error]}

\* variant of queue_of with one queue for all sends
queue_shared(i) ==
    1

\* result_q is a local of chat_with_persona: each send has its own
queue_of(i) ==
    i

\* variant of Expired that gives up a second early
ExpiredEarly(t) ==
    t >= LLM_TIMEOUT_SECS - 1

\* result_q.get(timeout=LLM_TIMEOUT_SECS) gives up when no time remains
Expired(t) ==
    t >= LLM_TIMEOUT_SECS

\* variant of worker_result that calls the model again after an Exception
worker_result_retries(w, o) ==
    IF o.raised
    THEN [w EXCEPT !.state = "started"]
    ELSE [w EXCEPT !.state = "done", !.value = o.text]

\* variant of worker_result whose except branch ends the thread without a put
worker_result_silent(w, o) ==
    IF o.raised
    THEN [w EXCEPT !.state = "failed"]
    ELSE [w EXCEPT !.state = "done", !.value = o.text]

\* _worker after its call: result_q.put(text), or result_q.put of the error
\* text in the except branch
worker_result(w, o) ==
    [w EXCEPT !.state = "done", !.value = o.text]

\* the script raised in room 1 after line 281: the log holds the user turn
chat_raises(s, key_prefix, user_input) ==
    [s EXCEPT !.messages[key_prefix] = normalize_messages(@) \o <<UserTurn(user_input)>>]

\* the session on entering room 1
Room1Entered ==
    /\ room_index = 1
    /\ max_room_unlocked = 1
    /\ messages = [key \in ChatKeys |-> <<>>]
    /\ discovered_fields_info = {}
    /\ feature_points = 0
    /\ engineering_processed_count = 0
    /\ chat_open = TRUE
    /\ outcome = "none"
    /\ last_event = "forward"
    /\ written = 0
    /\ ChatIdle
    /\ field_metadata = [loaded |-> TRUE, keys |-> fields_csv]

\* room 1 of a session with a key
InitChat == Room1Entered /\ api_key = TRUE

\* room 1 of a session with or without a key
InitChatAnyKey == Room1Entered /\ api_key \in BOOLEAN

\* chat_with_persona returns text
Return(text) ==
    /\ caller' = "returned"
    /\ returned' = [returned EXCEPT ![sends] = [kind |-> "text", text |-> text]]
    /\ last_event' = "return"
    /\ UNCHANGED <<room_index, max_room_unlocked, messages, discovered_fields_info,
                   feature_points, engineering_processed_count, chat_open, outcome,
                   field_metadata, api_key, written, user_content, sends, clock, worker>>

\* the script appends both turns, calls the hook and runs to its end
ScriptResumes ==
    /\ caller = "returned"
    /\ BecomeSession(run_script(Session, [NoEvent EXCEPT !.user_input = user_content,
                                                          !.reply = returned[sends].text]),
                     "send")
    /\ written' = 0
    /\ caller' = "idle"
    /\ user_content' = NoText
    /\ clock' = 0
    /\ UNCHANGED <<sends, worker, result_q, returned>>

\* input_disabled of room 1 in the next run (app.py 265-272)
input_disabled(s) ==
    history_unlocked(normalize_messages(s.messages["briefing"]), K_unlocked, S_unlock_phrase)

\* the learner submits a message, but the run shows no chat input any more:
\* the message is dropped and chat_with_persona is not called
SubmitDropped(u) ==
    /\ caller = "idle"
    /\ chat_open
    /\ input_disabled(Session)
    /\ Become(run_script(Session, [NoEvent EXCEPT !.user_input = u]), "send")
    /\ written' = 0

\* the learner submits a message; the script reaches chat_with_persona
StartSend(u) ==
    /\ caller = "idle"
    /\ chat_open
    /\ ~input_disabled(Session)
    /\ sends < MaxChatSends
    /\ caller' = "get_model"
    /\ user_content' = u
    /\ sends' = sends + 1
    /\ last_event' = "submit_chat"
    /\ UNCHANGED <<room_index, max_room_unlocked, messages, discovered_fields_info,
                   feature_points, engineering_processed_count, chat_open, outcome,
                   field_metadata, api_key, written, clock, worker, result_q, returned>>

\* variant of ModelMissing that goes on to the thread without a model
ModelMissing_starts_worker ==
    /\ caller = "get_model"
    /\ ~api_key
    /\ caller' = "waiting"
    /\ clock' = 0
    /\ worker' = [worker EXCEPT ![sends] = [@ EXCEPT !.state = "started",
                                                     !.started = @ + 1]]
    /\ result_q' = [result_q EXCEPT ![sends] = <<>>]
    /\ last_event' = "start_worker"
    /\ UNCHANGED <<room_index, max_room_unlocked, messages, discovered_fields_info,
                   feature_points, engineering_processed_count, chat_open, outcome,
                   field_metadata, api_key, written, user_content, sends, returned>>

\* get_gemini_model finds no API key and returns None
ModelMissing ==
    /\ caller = "get_model"
    /\ ~api_key
    /\ Return(LLM_unavailable)
    /\ UNCHANGED result_q

\* genai.configure or genai.GenerativeModel raises, or the import in a
\* session that has its key: nothing in chat_with_persona or ui_chat_area
\* catches it, and the script run ends.  Without a key only the import stands
\* before the return of None; the package is taken to be installed
ModelRaises ==
    /\ caller = "get_model"
    /\ api_key
    /\ BecomeSession(chat_raises(clamp_room(Session), "briefing", user_content), "raise")
    /\ written' = 0
    /\ caller' = "idle"
    /\ user_content' = NoText
    /\ returned' = [returned EXCEPT ![sends] = [kind |-> "raise", text |-> NoText]]
    /\ UNCHANGED <<sends, clock, worker, result_q>>

\* what a turn of the log becomes in gem_history
GeminiTurn(role, content) ==
    [role |-> IF role = "user" THEN "user" ELSE "model", parts |-> <<content>>]

\* variant of to_gemini_history that takes the text that is displayed
to_gemini_history_displayed(msgs) ==
    LET Kept(m) == m.role \in {"user", "assistant"} /\ m.content # NoText
        kept    == SelectSeq(msgs, Kept)
    IN  [i \in 1..Len(kept) |-> GeminiTurn(kept[i].role, kept[i].content)]

\* the turns of role user or assistant whose text, "original" when the turn
\* has it, is not empty; every text of the model is a string
to_gemini_history(msgs) ==
    LET Kept(m) == m.role \in {"user", "assistant"} /\ OriginalOrContent(m) # NoText
        kept    == SelectSeq(msgs, Kept)
    IN  [i \in 1..Len(kept) |-> GeminiTurn(kept[i].role, OriginalOrContent(kept[i]))]

\* messages[:-1] of ui_chat_area: the log after its backfill pass and before
\* the user turn of this send
prior_history(s, key_prefix) ==
    normalize_messages(s.messages[key_prefix])

\* the model is there: the queue is made, the thread started, and get begins
ModelObtained ==
    /\ caller = "get_model"
    /\ api_key
    /\ caller' = "waiting"
    /\ clock' = 0
    /\ worker' = [worker EXCEPT ![sends] =
                     [@ EXCEPT !.state = "started",
                               !.started = @ + 1,
                               !.history = to_gemini_history(prior_history(Session, "briefing"))]]
    /\ result_q' = [result_q EXCEPT ![queue_of(sends)] = <<>>]
    /\ last_event' = "start_worker"
    /\ UNCHANGED <<room_index, max_room_unlocked, messages, discovered_fields_info,
                   feature_points, engineering_processed_count, chat_open, outcome,
                   field_metadata, api_key, written, user_content, sends, returned>>

\* the worker of send i calls model.start_chat and chat.send_message
WorkerCall(i) ==
    /\ worker[i].state = "started"
    /\ worker[i].calls < 2
    /\ worker' = [worker EXCEPT ![i] = [@ EXCEPT !.state = "calling", !.calls = @ + 1]]
    /\ last_event' = "call"
    /\ UNCHANGED <<room_index, max_room_unlocked, messages, discovered_fields_info,
                   feature_points, engineering_processed_count, chat_open, outcome,
                   field_metadata, api_key, written, caller, user_content, sends, clock, result_q, returned>>

\* the thread after the call ended as o; put waits while its queue is full
WorkerPuts(i, w) ==
    /\ w.state = "done" => result_q[queue_of(i)] = <<>>
    /\ worker' = [worker EXCEPT ![i] =
                     [w EXCEPT !.in_time = /\ w.state = "done"
                                           /\ i = sends
                                           /\ caller = "waiting"
                                           /\ ~Expired(clock)]]
    /\ result_q' = IF w.state = "done"
                   THEN [result_q EXCEPT ![queue_of(i)] = <<w.value>>]
                   ELSE result_q

\* the call of worker i ends
WorkerEnds(i, o) ==
    /\ worker[i].state = "calling"
    /\ WorkerPuts(i, worker_result(worker[i], o))
    /\ last_event' = "put"
    /\ UNCHANGED <<room_index, max_room_unlocked, messages, discovered_fields_info,
                   feature_points, engineering_processed_count, chat_open, outcome,
                   field_metadata, api_key, written, caller, user_content, sends, clock, returned>>

\* a second passes while the caller waits
Tick ==
    /\ caller = "waiting"
    /\ clock < LLM_TIMEOUT_SECS
    /\ clock' = clock + 1
    /\ last_event' = "tick"
    /\ UNCHANGED <<room_index, max_room_unlocked, messages, discovered_fields_info,
                   feature_points, engineering_processed_count, chat_open, outcome,
                   field_metadata, api_key, written, caller, user_content, sends, worker, result_q, returned>>

\* Queue.get looks at the queue before it looks at the time: an item that is
\* there when the caller runs is taken, also after the timeout
CallerTakes ==
    /\ caller = "waiting"
    /\ result_q[queue_of(sends)] # <<>>
    /\ Return(Head(result_q[queue_of(sends)]))
    /\ result_q' = [result_q EXCEPT ![queue_of(sends)] = <<>>]

\* queue.Empty
CallerTimesOut ==
    /\ caller = "waiting"
    /\ result_q[queue_of(sends)] = <<>>
    /\ Expired(clock)
    /\ Return(LLM_timeout)
    /\ UNCHANGED result_q

NextChat ==
    \/ \E u \in UserInputs : StartSend(u)
    \/ \E u \in UserInputs : SubmitDropped(u)
    \/ ModelMissing
    \/ ModelRaises
    \/ ModelObtained
    \/ \E i \in SendIds : WorkerCall(i)
    \/ \E i \in SendIds, o \in WorkerOutcomes : WorkerEnds(i, o)
    \/ Tick
    \/ CallerTakes
    \/ CallerTimesOut
    \/ ScriptResumes

SpecChat == InitChatAnyKey /\ [][NextChat]_vars

\* time passes, and a waiting caller runs again
SpecChatFair ==
    SpecChat /\ WF_vars(Tick) /\ WF_vars(CallerTakes) /\ WF_vars(CallerTimesOut)

(***************************************************************************)
(* What the model is handed.  SpecHistory starts in room 1 with a briefing *)
(* log of an earlier exchange that did not unlock room 2 and runs the      *)
(* threads of SpecChat.                                                    *)
(***************************************************************************)
\* no exchange; a reply shown as the message of its object; a reply stored
\* before "original" existed; an empty reply
HistoryLogs ==
    {<<>>,
     <<UserTurn(U_hello), AssistantTurn(json_message_display_transform(R_hint), R_hint)>>,
     <<UserTurn(U_hello), LegacyTurn(R_plain)>>,
     <<UserTurn(U_hello), AssistantTurn(NoText, NoText)>>}

InitHistory ==
    /\ room_index = 1
    /\ max_room_unlocked = 1
    /\ \E log \in HistoryLogs :
          messages = [key \in ChatKeys |-> IF key = "briefing" THEN log ELSE <<>>]
    /\ discovered_fields_info = {}
    /\ feature_points = 0
    /\ engineering_processed_count = 0
    /\ chat_open = TRUE
    /\ outcome = "none"
    /\ last_event = "rerun"
    /\ written = 0
    /\ ChatIdle
    /\ field_metadata = [loaded |-> TRUE, keys |-> fields_csv]
    /\ api_key \in BOOLEAN

SpecHistory == InitHistory /\ [][NextChat]_vars

(***************************************************************************)
(* The chat loop of room 1 on replies of every shape.  SpecBriefing starts *)
(* in room 1 and sends up to MaxBriefingSends messages.                    *)
(***************************************************************************)
MaxBriefingSends == 2

BriefingReplies ==
    {R_plain, R_welcome, E_nested, E_list, B_empty_message, B_number_message, B_prefixed,
     LLM_timeout, X_nested, X_brace_in_string, X_second_parses}

SendBriefing(r) ==
    /\ Len(messages["briefing"]) < 2 * MaxBriefingSends
    /\ Send(U_hello, r)

NextBriefing ==
    \/ Rerun
    \/ \E r \in BriefingReplies : SendBriefing(r)

SpecBriefing == InitChat /\ [][NextBriefing]_vars

(***************************************************************************)
(* The catalogue fields.csv.  SpecCatalogue starts before room 0 with the  *)
(* catalogue the first run loaded, or with none when the file is not       *)
(* there, goes to room 2 and sends up to MaxCatalogueSends messages there. *)
(***************************************************************************)
MaxCatalogueSends == 2

\* the rows of fields.csv: the eleven names, four of them in another order,
\* two names in capitals, a header without rows
Catalogues ==
    {fields_csv, <<F_price, F_bed, F_age, F_sqft>>, <<N_Bed, N_SQFT>>, <<>>}

CatalogueReplies ==
    {D_average, D_underscore, D_text_only, R_confirm_two, D_rejected, D_unknown}

\* st.session_state after the first lines of the first run: field_metadata
\* holds the rows of the file, or is not there when open() raised
InitCatalogue ==
    /\ room_index = 0
    /\ max_room_unlocked = 0
    /\ messages = [key \in ChatKeys |-> <<>>]
    /\ discovered_fields_info = {}
    /\ feature_points = 0
    /\ engineering_processed_count = 0
    /\ chat_open = FALSE
    /\ outcome = "none"
    /\ last_event = "start"
    /\ written = 0
    /\ ChatIdle
    /\ api_key = TRUE
    /\ field_metadata \in {[loaded |-> TRUE, keys |-> V] : V \in Catalogues}
                             \cup {[loaded |-> FALSE, keys |-> <<>>]}

\* the widgets of a run that raised before the rooms are not there
Rendered == last_event # "raise"

EnterBriefing == Rendered /\ GoToRoom1

UnlockDiscovery == Rendered /\ room_index = 1 /\ Send(U_hello, R_unlock)

EnterDiscovery == Rendered /\ room_index = 1 /\ GoForward

SendCatalogue(r) ==
    /\ Rendered
    /\ room_index = 2
    /\ Len(messages["discovery"]) < 2 * MaxCatalogueSends
    /\ Send(U_hello, r)

NextCatalogue ==
    \/ Rerun
    \/ EnterBriefing
    \/ UnlockDiscovery
    \/ EnterDiscovery
    \/ \E r \in CatalogueReplies : SendCatalogue(r)

SpecCatalogue == InitCatalogue /\ [][NextCatalogue]_vars

(***************************************************************************)
(* Replies without an object, in each room with a chat.  SpecRooms starts  *)
(* in one of rooms 1..4 as the learner first enters it and sends up to     *)
(* MaxRoomSends messages there.                                            *)
(***************************************************************************)
MaxRoomSends == 2

UnstructuredReplies ==
    {R_plain, U_malformed, U_prose, U_not_used, LLM_unavailable, LLM_timeout, LLM_error}

\* the key_prefix each room passes to ui_chat_area
key_prefix_of(k) ==
    CASE k = 1 -> "briefing"
      [] k = 2 -> "discovery"
      [] k = 3 -> "eda"
      [] k = 4 -> "engineering"

\* the pair of turns of a send
Exchange(r) == <<UserTurn(U_hello), AssistantTurn(json_message_display_transform(r), r)>>

\* the session on first entering room k: each earlier room has the one
\* exchange that unlocked the next
Entered(k) ==
    /\ room_index = k
    /\ max_room_unlocked = k
    /\ messages = [key \in ChatKeys |->
                      CASE key = "briefing" /\ k >= 2  -> Exchange(R_unlock)
                        [] key = "discovery" /\ k >= 3 -> Exchange(R_confirm_ten)
                        [] key = "eda" /\ k >= 4       -> Exchange(R_unlock)
                        [] OTHER                       -> <<>>]
    /\ discovered_fields_info
          = IF k >= 3 THEN ConfirmedNames(Extract(R_confirm_ten)) ELSE {}
    /\ feature_points = 0
    /\ engineering_processed_count = 0
    /\ chat_open = TRUE
    /\ outcome = "none"
    /\ last_event = "forward"

InitRooms ==
    /\ \E k \in 1..4 : Entered(k)
    /\ written = 0
    /\ ChatIdle
    /\ Configured

SendUnstructured(r) ==
    /\ Len(messages[key_prefix_of(room_index)]) < 2 * MaxRoomSends
    /\ Send(U_hello, r)

NextRooms ==
    \/ Rerun
    \/ \E r \in UnstructuredReplies : SendUnstructured(r)

SpecRooms == InitRooms /\ [][NextRooms]_vars

(***************************************************************************)
(* The logs of the rooms side by side.  SpecLogs starts in room 3 of a     *)
(* session whose logs of rooms 1 and 2 may date from before replies were   *)
(* kept in "original", walks through rooms 0..4 and sends up to            *)
(* MaxLogSends messages.                                                   *)
(***************************************************************************)
MaxLogSends == 1

LogReplies == {R_plain, R_unlock}

\* the exchange of an earlier room, as stored now or before "original" existed
EarlierExchanges(r) == {Exchange(r), <<UserTurn(U_hello), LegacyTurn(r)>>}

\* room 3 after its first run: the log of room 3 has had its backfill pass
InitLogs ==
    /\ room_index = 3
    /\ max_room_unlocked = 3
    /\ \E b \in EarlierExchanges(R_unlock), d \in EarlierExchanges(R_confirm_ten),
          e \in {<<>>, Exchange(R_plain)} :
          messages = [key \in ChatKeys |->
                         CASE key = "briefing"  -> b
                           [] key = "discovery" -> d
                           [] key = "eda"       -> e
                           [] OTHER             -> <<>>]
    /\ discovered_fields_info = ConfirmedNames(Extract(R_confirm_ten))
    /\ feature_points = 0
    /\ engineering_processed_count = 0
    /\ chat_open = TRUE
    /\ outcome = "none"
    /\ last_event = "rerun"
    /\ written = 0
    /\ ChatIdle
    /\ Configured

SendLogs(r) ==
    /\ NumSends < 3 + MaxLogSends
    /\ Send(U_hello, r)

NextLogs ==
    \/ Rerun
    \/ GoToRoom1
    \/ GoForward
    \/ GoBack
    \/ \E r \in LogReplies : SendLogs(r)

SpecLogs == InitLogs /\ [][NextLogs]_vars

(***************************************************************************)
(* A learner who goes on.  SpecProgress starts at room 0; in a room whose  *)
(* next room is locked the learner sends messages, each answered by the    *)
(* reply that meets the room's condition or, up to MaxDelays times, by a   *)
(* timeout or an error; the learner presses the forward button when it is  *)
(* enabled.                                                                *)
(***************************************************************************)
MaxDelays == 2

\* the reply that meets the condition of each room
GoodReply(k) ==
    CASE k = 1 -> R_unlock
      [] k = 2 -> R_confirm_ten
      [] k = 3 -> R_unlock
      [] k = 4 -> R_points_30

DelayReplies == {LLM_timeout, LLM_error}

\* the sends that ended in a timeout or an error
NumDelays ==
    LET n(key) == Cardinality({i \in DOMAIN messages[key] :
                                  /\ messages[key][i].role = "assistant"
                                  /\ messages[key][i].original \in DelayReplies})
    IN  n("briefing") + n("discovery") + n("eda") + n("engineering")

\* the learner is in a room with a chat whose next room is still locked
MustChat ==
    /\ room_index \in 1..4
    /\ max_room_unlocked <= room_index
    /\ chat_open

SendAnswered(r) ==
    /\ Become(run_script(Session, [NoEvent EXCEPT !.user_input = U_hello, !.reply = r]),
              "send")
    /\ written' = 0

SendGood == MustChat /\ SendAnswered(GoodReply(room_index))

SendDelayed(r) == MustChat /\ NumDelays < MaxDelays /\ SendAnswered(r)

NextProgress ==
    \/ GoToRoom1
    \/ GoForward
    \/ SendGood
    \/ \E r \in DelayReplies : SendDelayed(r)

SpecProgress ==
    /\ Init
    /\ [][NextProgress]_vars
    /\ WF_vars(GoToRoom1)
    /\ WF_vars(GoForward)
    /\ WF_vars(SendGood)

(***************************************************************************)
(* Properties.                                                             *)
(***************************************************************************)
\* the text an assistant turn was stored from
RawText(log, i) == OriginalOrContent(log[i])

\* some assistant turn of the log was stored from one of the texts
SomeAssistantTurn(log, texts) ==
    \E i \in DOMAIN log : log[i].role = "assistant" /\ RawText(log, i) \in texts

\* C1: max_room_unlocked never decreases, whatever the interaction
C1_MaxUnlockedNeverDecreases ==
    [][max_room_unlocked' >= max_room_unlocked]_vars

\* room 1 is rendered again after room 3 was unlocked
C1_Witness ==
    max_room_unlocked >= 3 /\ room_index = 1 /\ last_event = "back"

\* C2: after every run room_index is at most max_room_unlocked, and a value
\* assigned to room_index from outside is read back as its minimum with
\* max_room_unlocked
C2_RoomClampedToFrontier ==
    /\ room_index <= max_room_unlocked
    /\ last_event = "write" => room_index = Min(written, max_room_unlocked)

\* a room above the frontier was assigned and the run clamped it
C2_Witness ==
    last_event = "write" /\ written > max_room_unlocked /\ room_index = 2

\* the exit condition of room k
ExitCondition(k) ==
    CASE k = 0 -> TRUE
      [] k = 1 -> history_unlocked(messages["briefing"], K_unlocked, S_unlock_phrase)
      [] k = 2 -> Cardinality(discovered_fields_info) >= DiscoveryThreshold
      [] k = 3 -> history_unlocked(messages["eda"], K_unlocked, S_unlock_phrase)
      [] k = 4 -> feature_points >= PointsThreshold

\* C3: max_room_unlocked rises by one room at a time, and rises from k to k+1
\* only in a step that starts in room k and ends with room k's exit condition
\* true
C3_LinearNoSkips ==
    [][\A k \in 0..4 :
          (max_room_unlocked = k /\ max_room_unlocked' # k)
              => /\ max_room_unlocked' = k + 1
                 /\ room_index = k
                 /\ ExitCondition(k)']_vars

\* every room has been unlocked in turn
C3_Witness ==
    max_room_unlocked = 5 /\ room_index = 5

\* C4: room 1 (room 3) is passed only if the briefing (EDA) log itself holds
\* an assistant reply whose "unlocked" is true
C4_FlagRoomsNeedOwnLog ==
    /\ max_room_unlocked > 1 => SomeAssistantTurn(messages["briefing"], {R_unlock})
    /\ max_room_unlocked > 3 => SomeAssistantTurn(messages["eda"], {R_unlock})

\* room 3 was rendered with the unlocking reply in two other logs and a reply
\* in its own log, and stays locked
C4_Witness ==
    /\ room_index = 3 /\ max_room_unlocked = 3
    /\ SomeAssistantTurn(messages["discovery"], {R_unlock})
    /\ messages["eda"] # <<>>

\* C5: once room 1 has rendered a stored log, room 2 is unlocked exactly when
\* some assistant turn was stored from a reply whose "unlocked" is the boolean
\* true: of the replies drawn, R_unlock alone
C5_FlagModeExactlyTrue ==
    last_event = "rerun"
        => (max_room_unlocked >= 2 <=> SomeAssistantTurn(messages["briefing"], {R_unlock}))

\* a log with a truthy "unlocked" and a user turn holding the unlocking text
\* was evaluated and did not unlock
C5_Witness ==
    /\ last_event = "rerun" /\ max_room_unlocked = 1
    /\ SomeAssistantTurn(messages["briefing"], {E_one, E_string, E_list})
    /\ \E i \in DOMAIN messages["briefing"] :
          messages["briefing"][i].role = "user" /\ messages["briefing"][i].content = R_unlock

\* C6: room 3 is unlocked only with at least ten discovered fields, and no run
\* of room 2 ends with ten fields and room 3 locked
C6_DiscoveryThresholdGatesRoom3 ==
    /\ max_room_unlocked >= 3 => Cardinality(discovered_fields_info) >= 10
    /\ (room_index = 2 /\ Cardinality(discovered_fields_info) >= 10)
          => max_room_unlocked >= 3

\* the tenth field arrived in room 2
C6_Witness ==
    /\ room_index = 2 /\ last_event = "send" /\ max_room_unlocked = 3
    /\ Cardinality(discovered_fields_info) = 10

\* C7: room 5 becomes unlocked only in a step that starts in room 4 and ends
\* with at least 30 points, and the score changes only in a step that starts in
\* room 4 and appends to the engineering log
C7_ScoreGatesRoom5 ==
    [][/\ (max_room_unlocked < 5 /\ max_room_unlocked' >= 5)
            => (room_index = 4 /\ feature_points' >= 30)
       /\ feature_points' # feature_points
            => /\ room_index = 4
               /\ Len(messages'["engineering"]) > Len(messages["engineering"])]_vars

\* room 5 was unlocked while other logs hold replies that award points
C7_Witness ==
    /\ max_room_unlocked = 5 /\ feature_points >= 30
    /\ SomeAssistantTurn(messages["briefing"], {R_points_30})

\* C8: the score is the sum of points_awarded over the assistant turns of the
\* engineering log, each counted once, and no turn is left for a later pass
C8_NoDoubleCounting ==
    /\ feature_points = SumPoints(messages["engineering"])
    /\ engineering_processed_count = Len(messages["engineering"])

\* replies awarding 5 and 10, then a pass with no new turn: 15
C8_Witness ==
    /\ room_index = 4 /\ last_event = "rerun"
    /\ [i \in DOMAIN messages["engineering"] |-> messages["engineering"][i].original]
          = <<NoText, R_points_5, NoText, R_points_10>>
    /\ feature_points = 15

\* C9: the score is never negative and never decreases
C9_ScoreNonNegativeNonDecreasing ==
    [][feature_points' >= feature_points /\ feature_points' >= 0]_vars

\* C10: no name ever leaves the discovered fields
C10_LedgerOnlyGrows ==
    [][discovered_fields_info \subseteq discovered_fields_info']_vars

\* two fields were confirmed, then ten
C10_Witness ==
    /\ last_event = "send"
    /\ Cardinality(discovered_fields_info) = 10
    /\ SomeAssistantTurn(messages["discovery"], {R_confirm_two})
    /\ SomeAssistantTurn(messages["discovery"], {R_confirm_ten})

\* the reply stored last in a log
LastReply(log) == log[Len(log)].original

\* a step in which the discovery persona answered
DiscoveryAnswered ==
    last_event' = "send" /\ Len(messages'["discovery"]) > Len(messages["discovery"])

\* the names in the confirmed_fields list of each reply that has some
ListedNames(r) ==
    CASE r = R_confirm_two   -> {F_sqft, F_bed}
      [] r = D_list_and_text -> {F_sqft, F_bed}

\* C11: a discovery reply with status "confirmed" in any case and a list
\* holding a name adds the names of the list to the discovered fields and
\* nothing else, whatever its message says
C11_ConfirmedListAddsExactlyItsNames ==
    [][(DiscoveryAnswered /\ LastReply(messages'["discovery"]) \in {R_confirm_two, D_list_and_text})
          => discovered_fields_info'
                = discovered_fields_info \cup ListedNames(LastReply(messages'["discovery"]))]_vars

\* the list named sqft and bed, the message named lot as well
C11_Witness ==
    /\ last_event = "send"
    /\ messages["discovery"] # <<>>
    /\ LastReply(messages["discovery"]) = D_list_and_text
    /\ discovered_fields_info = {F_sqft, F_bed}

\* the names of the catalogue each reply's message holds as whole words
NamesInMessage(r) ==
    CASE r = D_text_only  -> {F_sqft, F_lot}
      [] r = D_empty_list -> {F_age}
      [] r = D_no_strings -> {F_zip}

\* C12: a confirming reply without confirmed_fields, or with a list that adds
\* nothing, adds the catalogue names found as whole words in its message, and
\* no other name
C12_FallbackScansMessage ==
    [][(DiscoveryAnswered
          /\ LastReply(messages'["discovery"]) \in {D_text_only, D_empty_list, D_no_strings})
          => discovered_fields_info'
                = discovered_fields_info \cup NamesInMessage(LastReply(messages'["discovery"]))]_vars

\* the message named Sqft, lot and bedrooms; bedrooms is not in the catalogue
C12_Witness ==
    /\ last_event = "send"
    /\ messages["discovery"] # <<>>
    /\ LastReply(messages["discovery"]) = D_text_only
    /\ discovered_fields_info = {F_sqft, F_lot}

\* C13: every send gives its caller a string; chat_with_persona never raises
C13_SendNeverRaises ==
    \A i \in SendIds : returned[i].kind # "raise"

\* a step in which the caller's wait on the queue ends
WaitEnds == caller = "waiting" /\ caller' = "returned"

\* what the running send gave its caller in this step
ReturnedNow == returned'[sends].text

\* C14 as stated: the wait ends with the timeout text exactly when the worker
\* had not put its value before the timeout elapsed
C14_TimeoutIffNotDeliveredByDeadline ==
    [][WaitEnds => (ReturnedNow = LLM_timeout <=> ~worker[sends].in_time)]_vars

\* C14: the wait ends with the timeout text only when the timeout has elapsed
\* and the worker has put nothing; a value the worker put, in time or not, is
\* what the caller returns; and every wait ends, whatever the worker does
C14_TimeoutOnlyAfterDeadline ==
    /\ [][WaitEnds =>
            /\ ReturnedNow = LLM_timeout
                  => clock = LLM_TIMEOUT_SECS /\ worker[sends].state # "done"
            /\ worker[sends].state = "done" => ReturnedNow = worker[sends].value
            /\ worker[sends].in_time => ReturnedNow # LLM_timeout]_vars
    /\ (caller = "waiting" ~> caller = "returned")

\* a send timed out although its worker never finished
C14_Witness ==
    /\ sends = 1
    /\ caller = "returned"
    /\ returned[1] = [kind |-> "text", text |-> LLM_timeout]
    /\ worker[1].state = "calling"

\* the session variables that the rooms read
Progress ==
    <<room_index, max_room_unlocked, messages, discovered_fields_info, feature_points,
      engineering_processed_count>>

\* a step of a worker thread
WorkerStep == worker' # worker /\ caller' = caller

\* C15: a worker's put changes no log, ledger, score or frontier; what a send
\* returns is the text of no other send's worker, and what the script appends
\* is what the send returned
C15_LateResultDiscarded ==
    [][/\ WorkerStep => UNCHANGED Progress
       /\ caller' = "returned"
             => \/ caller = "returned"
                \/ ReturnedNow \in {LLM_unavailable, LLM_timeout}
                \/ worker[sends].state = "done" /\ ReturnedNow = worker[sends].value
       /\ (caller = "returned" /\ caller' = "idle")
             => /\ LastReply(messages'["briefing"]) = returned[sends].text
                /\ Len(messages'["briefing"]) = Len(messages["briefing"]) + 2
       /\ Len(messages'["briefing"]) > Len(messages["briefing"])
             => caller = "returned" \/ returned'[sends].kind = "raise"]_vars

\* the first send timed out, its worker then put the unlocking reply, and the
\* second send returned its own worker's reply: room 2 stays locked
C15_Witness ==
    /\ returned[1] = [kind |-> "text", text |-> LLM_timeout]
    /\ worker[1].state = "done"
    /\ worker[1].value = R_unlock
    /\ returned[2] = [kind |-> "text", text |-> R_plain]
    /\ max_room_unlocked = 1
    /\ \A k \in DOMAIN messages["briefing"] : messages["briefing"][k].original # R_unlock

\* C16: a send starts at most one worker and makes at most one call of the
\* model, a worker is started only by the send that is running, and no send
\* that was not submitted has a worker
C16_NoRetries ==
    /\ [](\A i \in SendIds :
             /\ worker[i].started <= 1
             /\ worker[i].calls <= 1
             /\ i > sends => worker[i].started = 0)
    /\ [][\A i \in SendIds :
             worker'[i].started > worker[i].started
                => i = sends /\ caller = "get_model" /\ returned[i].kind = "none"]_vars

\* both sends ended with a text that is not a reply, and each called once
C16_Witness ==
    /\ returned[1] = [kind |-> "text", text |-> LLM_error]
    /\ returned[2] = [kind |-> "text", text |-> LLM_timeout]
    /\ worker[1].calls = 1
    /\ worker[2].calls = 1
    /\ caller = "idle"

\* msgs and the log one pass makes of it: same turns in the same roles, user
\* turns and turns with "original" as they were, and a second pass changes
\* nothing
BackfillAgrees(msgs, once) ==
    /\ normalize_messages(once) = once
    /\ Len(once) = Len(msgs)
    /\ \A i \in 1..Len(msgs) :
          /\ once[i].role = msgs[i].role
          /\ (msgs[i].role = "user" \/ msgs[i].has_original) => once[i] = msgs[i]

\* C17: the backfill pass is idempotent on every stored log, keeps the number,
\* order and roles of the turns, and leaves user turns and turns that carry
\* "original" as they are; the log a script run leaves is one it does not change
C17_BackfillIdempotent ==
    /\ BackfillAgrees(messages["briefing"], normalize_messages(messages["briefing"]))
    /\ last_event = "rerun"
          => normalize_messages(messages["briefing"]) = messages["briefing"]

\* a run backfilled a turn whose message is the text of an object, next to a
\* user turn with the text of an object and a turn that stays without "original"
C17_Witness ==
    /\ last_event = "rerun"
    /\ Len(messages["briefing"]) = 4
    /\ messages["briefing"][1] = UserTurn(R_unlock)
    /\ messages["briefing"][2] = AssistantTurn(<<"{", "}">>, E_nested)
    /\ messages["briefing"][4] = LegacyTurn(R_plain)

T_welcome ==
    <<"W","e","l","c","o","m","e"," ","a","b","o","a","r","d","!">>

T_hi ==
    <<"H","i">>

T_braces ==
    <<"{","}">>

\* what the page shows for each briefing reply
DisplayedAs(r) ==
    CASE r = R_welcome  -> T_welcome
      [] r = E_nested   -> T_braces
      [] r = B_prefixed -> T_hi
      [] r = X_second_parses -> T_hi
      [] OTHER          -> r

\* the chat loop answered with r in this step
Appended(r) ==
    /\ SendBriefing(r)
    /\ Len(messages'["briefing"]) > Len(messages["briefing"])

\* C18: the turn the chat loop appends keeps the reply unchanged as "original"
\* and shows the message of its object when that is a non-empty string, else
\* the reply itself; the welcome reply shows "Welcome aboard!", is found
\* unlocked and leaves room 2 unlocked
C18_DisplayIsMessageOrRaw ==
    [][\A r \in BriefingReplies :
          Appended(r)
             => /\ messages'["briefing"]
                      = messages["briefing"]
                           \o <<UserTurn(U_hello),
                                [role |-> "assistant", content |-> DisplayedAs(r),
                                 has_original |-> TRUE, original |-> r]>>
                /\ r = R_welcome
                      => /\ history_unlocked(messages'["briefing"], K_unlocked,
                                             S_unlock_phrase)
                         /\ max_room_unlocked' >= 2]_vars

\* the welcome reply came after a reply with an empty message
C18_Witness ==
    /\ last_event = "send"
    /\ Len(messages["briefing"]) = 4
    /\ messages["briefing"][2].content = B_empty_message
    /\ messages["briefing"][4].original = R_welcome
    /\ messages["briefing"][4].content = T_welcome
    /\ max_room_unlocked = 2

\* C19: a submission in room 5 is rejected when the selection holds "id" or
\* "date" and succeeds otherwise; either way the room, the frontier, the logs,
\* the ledger and the score stay as they are, and the frontier never passes 5
C19_SubmissionChangesNoProgress ==
    /\ [](max_room_unlocked <= 5)
    /\ [][\A selected \in Selections :
             Submit(selected)
                => /\ outcome' = IF C_id \in selected \/ C_date \in selected
                                 THEN "rejected" ELSE "escaped"
                   /\ room_index' = 5
                   /\ UNCHANGED Progress]_vars

\* a submission was rejected in room 5
C19_Witness ==
    /\ last_event = "submit"
    /\ outcome = "rejected"
    /\ room_index = 5
    /\ max_room_unlocked = 5

\* the session t that a press of the return button makes of s: one room back,
\* the frontier as it was
BackLeads(s, t) ==
    /\ t.room_index = s.room_index - 1
    /\ t.max_room_unlocked = s.max_room_unlocked

\* C20 as stated: every step to the next room starts with that room unlocked
C20_ForwardOnlyWhenUnlocked ==
    [][room_index' = room_index + 1 => room_index + 1 <= max_room_unlocked]_vars

\* C20: in every state of rooms 1..5 a press of the return button, which no
\* room disables, leads one room back and leaves the frontier as it is, and so
\* does every step back that is taken; a step forward leads one room on,
\* from rooms 1..4 only to a room that was unlocked before the step, and from
\* room 0 to room 1, which that step unlocks
C20_BackAlwaysForwardWithinFrontier ==
    /\ [](room_index \in 1..5
            => BackLeads(Session, run_script(Session, [NoEvent EXCEPT !.button = "prev"])))
    /\ [][last_event' = "back"
             => /\ room_index' = room_index - 1
                /\ max_room_unlocked' = max_room_unlocked]_vars
    /\ [][room_index' > room_index
             => /\ room_index' = room_index + 1
                /\ room_index' <= max_room_unlocked'
                /\ room_index >= 1 => room_index' <= max_room_unlocked]_vars

\* the learner went back from room 2; room 2 stays unlocked
C20_Witness ==
    /\ last_event = "back"
    /\ room_index = 1
    /\ max_room_unlocked = 2

\* the objects written inside the prose replies
O_nested ==
    <<"{","\"","m","e","s","s","a","g","e","\"",":","\"","G","o","\"",",","\"","m","e","t","a",
      "\"",":","{","\"","k","\"",":","1","}","}">>

O_brace_in_string ==
    <<"{","\"","m","e","s","s","a","g","e","\"",":","\"","a","}","b","\"","}">>

O_hi ==
    <<"{","\"","m","e","s","s","a","g","e","\"",":","\"","H","i","\"","}">>

\* the text of the first brace-delimited object each prose reply holds
ObjectIn(r) ==
    CASE r = B_prefixed        -> O_hi
      [] r = X_second_parses   -> O_hi
      [] r = X_nested          -> O_nested
      [] r = X_brace_in_string -> O_brace_in_string

ProseReplies == {B_prefixed, X_second_parses, X_nested, X_brace_in_string}

\* C21: from a reply that holds an object inside prose the extractor returns
\* that object, also when the object holds an object or has a closing brace
\* in a string, and it passes over braces that hold no JSON
C21_ExtractsObjectInProse ==
    \A k \in DOMAIN messages["briefing"] :
        LET turn == messages["briefing"][k]
        IN  (turn.role = "assistant" /\ turn.original \in ProseReplies)
               => Extract(turn.original) = json_loads(ObjectIn(turn.original)).v

\* C22: what the extractor returns for a reply is an object or nothing
C22_ExtractsObjectOrNothing ==
    \A k \in DOMAIN messages["discovery"] :
        LET turn == messages["discovery"][k]
        IN  turn.role = "assistant"
               => IsDict(Extract(turn.original)) \/ Extract(turn.original) = JNull

\* replies on which data.get raises inside the hook
HookFails == {J_list, J_string, J_number}

\* C30: when the hook of room 2 fails on a reply that is JSON but no object,
\* the run goes on: both turns are in the log, the reply is shown as it is,
\* ledger, score, room and frontier are as before, and the chat stays open
C30_HookFailureNotFatal ==
    [][(/\ Len(messages'["discovery"]) > Len(messages["discovery"])
        /\ LastReply(messages'["discovery"]) \in HookFails)
          => /\ messages'["discovery"]
                   = messages["discovery"]
                        \o <<UserTurn(U_hello),
                             AssistantTurn(LastReply(messages'["discovery"]),
                                           LastReply(messages'["discovery"]))>>
             /\ last_event' = "send"
             /\ chat_open'
             /\ UNCHANGED <<discovered_fields_info, feature_points, room_index,
                            max_room_unlocked>>]_vars

\* after a reply that is a list the next reply was taken and confirmed two names
C30_Witness ==
    /\ Len(messages["discovery"]) = 4
    /\ messages["discovery"][2].original = J_list
    /\ messages["discovery"][4].original = R_confirm_two
    /\ discovered_fields_info = {F_sqft, F_bed}
    /\ last_event = "send"

\* the turns of a send that ended with the sentinel of a session without key
UnavailableTurns == <<UserTurn(U_hello), AssistantTurn(LLM_unavailable, LLM_unavailable)>>

\* C24: in a session without API key no worker is started and the model is
\* never called, each send that returned returned the unavailability text,
\* the log holds that text as an assistant turn after each user turn, no run
\* raises, and the frontier stays at room 1
C24_NoKeyOnlySentinel ==
    [](~api_key =>
          /\ \A i \in SendIds :
                /\ worker[i] = NoWorker
                /\ returned[i] \in {NotReturned, [kind |-> "text", text |-> LLM_unavailable]}
                /\ (i < sends \/ (i = sends /\ caller \in {"idle", "returned"}))
                      => returned[i].kind = "text"
          /\ caller \in {"idle", "get_model", "returned"}
          /\ \A k \in DOMAIN messages["briefing"] :
                messages["briefing"][k] = UnavailableTurns[IF k % 2 = 1 THEN 1 ELSE 2]
          /\ Len(messages["briefing"]) = 2 * (IF caller = "idle" THEN sends ELSE sends - 1)
          /\ last_event # "raise"
          /\ max_room_unlocked = 1)

\* two sends without key are in the log and the input is still enabled
C24_Witness ==
    /\ ~api_key
    /\ sends = 2
    /\ caller = "idle"
    /\ messages["briefing"] = UnavailableTurns \o UnavailableTurns
    /\ chat_open

\* the words of each message, in lower case
WordsOf(r) ==
    CASE r = D_average    -> {F_price, W_and, F_bed, W_average}
      [] r = D_underscore -> {F_age, W_sqft_lot}

MessageText(r) ==
    CASE r = D_average    -> M_average
      [] r = D_underscore -> M_underscore

\* the names of V, in the order of V, that are words of the message of r
NamesOfIn(V, r) ==
    LET IsWord(name) == LowerText(name) \in WordsOf(r)
    IN  SelectSeq(V, IsWord)

\* C23: for each catalogue and each message the matcher returns the names of
\* the catalogue that are words of the message whatever their case, in the
\* order of the catalogue, and the fallback of the hook adds those names
C23_MatcherWholeWordsInCatalogueOrder ==
    \A r \in {D_average, D_underscore} :
        /\ (\E k \in DOMAIN messages["discovery"] : messages["discovery"][k].original = r)
              => extract_known_fields_from_text(MessageText(r), field_metadata.keys)
                    = NamesOfIn(field_metadata.keys, r)
        /\ (Len(messages["discovery"]) = 2 /\ LastReply(messages["discovery"]) = r)
              => discovered_fields_info = Range(NamesOfIn(field_metadata.keys, r))

\* on "Price and BED; average" with the eleven names the matcher returns bed
\* before price and leaves age out
C23_Witness ==
    /\ field_metadata.keys = fields_csv
    /\ Len(messages["discovery"]) = 2
    /\ LastReply(messages["discovery"]) = D_average
    /\ extract_known_fields_from_text(M_average, field_metadata.keys) = <<F_bed, F_price>>
    /\ discovered_fields_info = {F_bed, F_price}

\* C25: a session without fields.csv renders its rooms
C25_MissingFileRendersRooms ==
    ~field_metadata.loaded => last_event # "raise"

\* the log of the room the learner is in
CurrentLog == messages[key_prefix_of(room_index)]

\* C26: a reply from which no object is extracted is stored and shown as it
\* is, and leaves frontier, ledger and score unchanged, in each of rooms 1..4
C26_UnstructuredReplyChangesNoProgress ==
    [][Len(CurrentLog') > Len(CurrentLog)
          => /\ LastReply(CurrentLog') \in UnstructuredReplies
             /\ Extract(LastReply(CurrentLog')) = JNull
             /\ CurrentLog' = CurrentLog
                                 \o <<UserTurn(U_hello),
                                      AssistantTurn(LastReply(CurrentLog'),
                                                    LastReply(CurrentLog'))>>
             /\ UNCHANGED <<room_index, max_room_unlocked, discovered_fields_info,
                            feature_points>>]_vars

\* room 4 took JSON without its closing brace and then prose with points
C26_Witness ==
    /\ room_index = 4
    /\ Len(messages["engineering"]) = 4
    /\ messages["engineering"][2].content = U_malformed
    /\ messages["engineering"][4].content = U_prose
    /\ engineering_processed_count = 4
    /\ feature_points = 0
    /\ max_room_unlocked = 4

\* C27: the log of room 1 is user turn, assistant turn, user turn, ... and,
\* once a send has ended, holds one such pair for each message sent
C27_EachSendAppendsUserThenAssistant ==
    /\ \A k \in DOMAIN messages["briefing"] :
          messages["briefing"][k].role = IF k % 2 = 1 THEN "user" ELSE "assistant"
    /\ caller = "idle" => Len(messages["briefing"]) = 2 * sends

\* the logs a step changed
ChangedLogs == {key \in ChatKeys : messages'[key] # messages[key]}

\* the log of room k, none for the rooms without chat
LogsOfRoom(k) == IF k \in 1..4 THEN {key_prefix_of(k)} ELSE {}

\* C29: a run in one room, with or without a message sent, changes no log but
\* that room's; a step back, which runs the room left and the room entered,
\* changes no log but theirs; and no log ever gets shorter
C29_OnlyTheRoomsLogChanges ==
    [][/\ ChangedLogs \subseteq LogsOfRoom(room_index) \cup LogsOfRoom(room_index')
       /\ room_index' = room_index => ChangedLogs \subseteq LogsOfRoom(room_index)
       /\ last_event' = "forward" => ChangedLogs \subseteq LogsOfRoom(room_index')
       /\ \A key \in ChatKeys : Len(messages'[key]) >= Len(messages[key])]_vars

\* back in room 2 the discovery log has had its backfill pass and a message
\* was sent there, while the briefing log is as it was stored long ago
C29_Witness ==
    /\ room_index = 2
    /\ messages["briefing"] = <<UserTurn(U_hello), LegacyTurn(R_unlock)>>
    /\ Len(messages["discovery"]) = 4
    /\ messages["discovery"][2] = AssistantTurn(json_message_display_transform(R_confirm_ten),
                                                R_confirm_ten)
    /\ messages["eda"] = Exchange(R_plain)

\* the history of a log, turn by turn: nothing for a turn without text, else
\* the raw text when the turn has one and the text shown when it has none
RECURSIVE PriorTurns(_)
PriorTurns(log) ==
    IF log = <<>> THEN <<>>
    ELSE LET m    == Head(log)
             text == IF m.has_original THEN m.original ELSE m.content
         IN  (IF text = NoText
              THEN <<>>
              ELSE <<[role  |-> IF m.role = "assistant" THEN "model" ELSE "user",
                      parts |-> <<text>>]>>)
                \o PriorTurns(Tail(log))

\* C28: the thread a send starts is handed the turns that were in the
\* briefing log before the send, in their order, without the turns whose text
\* is empty, assistant turns under the role model, each with its raw text
\* when it has one; the logs of the other rooms are empty and add nothing
C28_HistoryIsPriorLog ==
    [][worker'[sends'].started > worker[sends'].started
          => /\ worker'[sends'].history = PriorTurns(messages["briefing"])
             /\ \A i \in DOMAIN worker'[sends'].history :
                   worker'[sends'].history[i].role \in {"user", "model"}]_vars

\* the second send of a session that began with the hint: the model is handed
\* the raw JSON of the hint, not "Go on", and the first exchange after it
C28_Witness ==
    /\ sends = 2
    /\ worker[2].state = "started"
    /\ worker[2].history
          = <<[role |-> "user",  parts |-> <<U_hello>>],
              [role |-> "model", parts |-> <<R_hint>>],
              [role |-> "user",  parts |-> <<U_hello>>],
              [role |-> "model", parts |-> <<R_plain>>]>>
    /\ messages["briefing"][2].content = T_go_on

\* every log that msgs extends, msgs included
Prefixes(msgs) == {SubSeq(msgs, 1, n) : n \in 0..Len(msgs)}

\* what is found for a log that some extension is found for as well
StaysUnlocked(msgs, unlock_field, unlock_phrase) ==
    \A shorter \in Prefixes(msgs) :
        history_unlocked(shorter, unlock_field, unlock_phrase)
            => history_unlocked(msgs, unlock_field, unlock_phrase)

\* C31: a log that has a prefix found unlocked is found unlocked, by the flag
\* and by the phrase; and a run of room 1 on a log that a run has evaluated
\* before changes nothing in the session: same log, same frontier, same input
C31_EvaluationPureAndMonotone ==
    /\ [](/\ StaysUnlocked(messages["briefing"], K_unlocked, S_unlock_phrase)
          /\ StaysUnlocked(messages["briefing"], NoText, <<"G", "o">>))
    /\ [][last_event = "rerun" => UNCHANGED vars]_vars

\* a run evaluated a log whose first reply unlocks and whose second does not
C31_Witness ==
    /\ last_event = "rerun"
    /\ Len(messages["briefing"]) = 4
    /\ messages["briefing"][2].original = R_unlock
    /\ messages["briefing"][4].original = R_plain
    /\ history_unlocked(SubSeq(messages["briefing"], 1, 2), K_unlocked, S_unlock_phrase)
    /\ max_room_unlocked = 2
    /\ ~chat_open

\* replies of the discovery persona without the status "confirmed": two with
\* no status at all and a rejection
NotConfirming == {D_average, D_underscore, D_rejected}

\* C32: a reply without the status "confirmed" leaves the ledger as it was
C32_UnconfirmedAddsNothing ==
    [][(/\ Len(messages'["discovery"]) > Len(messages["discovery"])
        /\ LastReply(messages'["discovery"]) \in NotConfirming)
          => discovered_fields_info' = discovered_fields_info]_vars

\* C33: every name in the ledger is a name of the catalogue
C33_LedgerWithinCatalogue ==
    discovered_fields_info \subseteq Range(field_metadata.keys)

\* C34: in room 2 below ten fields and in room 4 below thirty points the run
\* shows the chat input
C34_ThresholdRoomsKeepInput ==
    /\ (room_index = 2 /\ Cardinality(discovered_fields_info) < DiscoveryThreshold)
          => chat_open
    /\ (room_index = 4 /\ feature_points < PointsThreshold) => chat_open

\* the log of flag room k is found unlocked
FlagRoomUnlocked(k) ==
    history_unlocked(messages[key_prefix_of(k)], K_unlocked, S_unlock_phrase)

\* C35: once the log of room 1 or of room 3 is found unlocked, no step changes
\* that log any more, and a message submitted in that room is dropped: the run
\* shows no input
C35_UnlockedFlagRoomTakesNoTurn ==
    [][\A k \in {1, 3} :
          FlagRoomUnlocked(k)
             => /\ messages'[key_prefix_of(k)] = messages[key_prefix_of(k)]
                /\ (room_index = k /\ last_event' = "send") => ~chat_open']_vars

\* a message was submitted in room 3 after the reply that unlocked room 4: the
\* log still has its two turns, and the input is gone
C35_Witness ==
    /\ room_index = 3
    /\ last_event = "send"
    /\ ~chat_open
    /\ FlagRoomUnlocked(3)
    /\ Len(messages["eda"]) = 2
    /\ NumSends = 3

\* C36: every log is user turn, assistant turn, user turn, ..., is of even
\* length while no send is under way, and its assistant turns have "original"
C36_LogsAlternateInPairs ==
    \A key \in ChatKeys :
        /\ \A k \in DOMAIN messages[key] :
              /\ (k % 2 = 1) <=> messages[key][k].role = "user"
              /\ (k % 2 = 0) <=> messages[key][k].role = "assistant"
              /\ messages[key][k].role = "assistant" => messages[key][k].has_original
        /\ caller = "idle" => Len(messages[key]) % 2 = 0

\* C37: the cursor of the scoring pass lies between 0 and the length of the
\* engineering log, never moves back, and after a step that ran room 4 stands
\* at the end of the log, whatever the new turns held
C37_CursorFollowsLog ==
    /\ [](/\ engineering_processed_count >= 0
          /\ engineering_processed_count <= Len(messages["engineering"]))
    /\ [][/\ engineering_processed_count' >= engineering_processed_count
          /\ (room_index' = 4 \/ Len(messages'["engineering"]) > Len(messages["engineering"]))
                => engineering_processed_count' = Len(messages'["engineering"])]_vars

\* a reply without points and then one with ten: the cursor passed all four
\* turns and the score is ten
C37_Witness ==
    /\ room_index = 4
    /\ Len(messages["engineering"]) = 4
    /\ messages["engineering"][2].original = R_plain
    /\ messages["engineering"][4].original = R_points_10
    /\ engineering_processed_count = 4
    /\ feature_points = 10

\* C38: a learner who goes on reaches room 5, with timeouts and errors on the
\* way or without
C38_ReachesRoom5 ==
    <>(room_index = 5)

\* room 5 was reached after a timeout and an error
C38_Witness ==
    /\ room_index = 5
    /\ NumDelays = 2
    /\ \E i \in DOMAIN messages["discovery"] : messages["discovery"][i].original = LLM_timeout
    /\ \E i \in DOMAIN messages["engineering"] : messages["engineering"][i].original = LLM_error

(***************************************************************************)
(* The second implementation of the rooms: HousePricePredictionScenario,   *)
(* driven by BaseScenario.render_scenario.  Its rooms call the same        *)
(* ui_chat_area and the same helpers; BaseScenario.__init__ reads          *)
(* fields.csv only when the file exists and raises nothing when it does    *)
(* not, so field_metadata may be absent while the rooms are rendered.      *)
(***************************************************************************)
\* room 2 of the scenario class: on_ds_message reads
\* st.session_state.field_metadata before it adds a name, and ui_chat_area
\* catches what the hook raises, so without the catalogue nothing is added
render_room_2_discovery(s, ev) ==
    IF s.field_metadata.loaded
    THEN render_room_2(s, ev)
    ELSE ReturnButton(discovered_enough_fields(ui_chat_area(s, "discovery", S_not_used,
                                                            "none", NoText, ev).s),
                      ev, 1)

\* _render_room of the scenario class
HousePricePredictionScenario(s, ev) ==
    CASE s.room_index = 0 -> render_room_0(s, ev)
      [] s.room_index = 1 -> render_room_1(s, ev)
      [] s.room_index = 2 -> render_room_2_discovery(s, ev)
      [] s.room_index = 3 -> render_room_3(s, ev)
      [] s.room_index = 4 -> render_room_4(s, ev)
      [] s.room_index = 5 -> render_room_5(s, ev)
      [] OTHER            -> [s |-> s, rerun |-> FALSE]

\* BaseScenario.render_scenario: the clamp, then the room
BaseScenario_render_scenario(s, ev) ==
    HousePricePredictionScenario(
        [clamp_room(s) EXCEPT !.chat_open = FALSE, !.outcome = "none"], ev)

\* the runs of the scenario class that one interaction causes
RECURSIVE scenario_script(_, _)
scenario_script(s, ev) ==
    LET first == BaseScenario_render_scenario(s, ev)
    IN  IF first.rerun THEN scenario_script(first.s, NoEvent) ELSE first.s

\* what the learner can do in the current session, as the session the
\* callbacks leave and the widget values of the run
Interactions ==
    {[s |-> Session, ev |-> e] :
        e \in {NoEvent,
               [NoEvent EXCEPT !.button = "go"],
               [NoEvent EXCEPT !.button = "prev"]}
              \cup {[NoEvent EXCEPT !.user_input = U_hello, !.reply = r] :
                        r \in CatalogueReplies \cup {R_unlock}}}
    \cup {[s |-> [Session EXCEPT !.room_index = room_index + 1], ev |-> NoEvent]}

\* equal current room, frontier, ledger, score, cursor and logs
SameProgress(a, b) ==
    /\ a.room_index = b.room_index
    /\ a.max_room_unlocked = b.max_room_unlocked
    /\ a.discovered_fields_info = b.discovered_fields_info
    /\ a.feature_points = b.feature_points
    /\ a.engineering_processed_count = b.engineering_processed_count
    /\ a.messages = b.messages

C40_OneDepositNeverBlocks ==
    /\ [](\A i \in SendIds :
             /\ Len(result_q[i]) <= 1
             /\ worker[i].state = "calling" => result_q[queue_of(i)] = <<>>
             /\ result_q[i] # <<>>
                   => worker[i].state = "done" /\ result_q[i] = <<worker[i].value>>)
    /\ [][\A i \in SendIds :
             /\ (worker[i].state = "calling" /\ worker'[i] # worker[i])
                   => /\ worker'[i].state = "done"
                      /\ worker'[i].value \in ChatReplies \cup {LLM_error}
                      /\ result_q'[queue_of(i)] = <<worker'[i].value>>
             /\ worker[i].state = "done" => worker'[i] = worker[i]
             /\ (result_q'[i] # result_q[i] /\ result_q'[i] # <<>>)
                   => worker[i].state = "calling"]_vars

\* the first send timed out and its worker put a reply afterwards, which
\* stays in its queue; the worker of the second send put the error text
C40_Witness ==
    /\ returned[1] = [kind |-> "text", text |-> LLM_timeout]
    /\ worker[1].state = "done"
    /\ ~worker[1].in_time
    /\ result_q[1] = <<R_plain>>
    /\ worker[2].state = "done"
    /\ result_q[2] = <<LLM_error>>

====
